---- MODULE Spec2Model ----
(***************************************************************************)
(* Model of the multi-agent interview workflow: the InterviewCoach session *)
(* object (src/src/graph.py), the LangGraph workflow it drives and the     *)
(* agent nodes (src/src/agents/*.py).  One invocation of the workflow is   *)
(* a walk router -> [parallel_analysis] -> planner -> voice | reporter;    *)
(* each node is one action, the two evaluator tasks of the parallel node   *)
(* are one action each.  Every provider (LLM) call is an input: it either  *)
(* fails or returns a structured result drawn from a small set.            *)
(***************************************************************************)
EXTENDS Integers, Sequences, FiniteSets, TLC

VARIABLES
    state,                \* InterviewCoach.state (the InterviewState dict)
    is_active,            \* InterviewCoach.is_active
    last_agent_message,   \* InterviewCoach._last_agent_message
    pc,                   \* position of the running handler / workflow
    handler,              \* which handler runs: "none", "start", "process"
    current_turn_id,      \* process_message's local current_turn_id
    entry,                \* plan, context and flags the running handler started from
    results,              \* parallel_analysis_node's results, in completion order
    path,                 \* nodes executed by the current workflow invocation
    ret,                  \* value returned by the last finished handler
    max_turns,            \* the MAX_TURNS environment setting
    failures,             \* provider failures so far (bounded by MaxFailures)
    logged                \* InterviewLogger.current_session["turns"]

vars == <<state, is_active, last_agent_message, pc, handler, current_turn_id,
          entry, results, path, ret, max_turns, failures, logged>>

(***************************************************************************)
(* Bounds of the model.                                                    *)
(***************************************************************************)
MaxMsgs == 2        \* candidate messages accepted by an active session
MaxTopics == 2      \* topics the plan generator may return
MaxTurnsLow == 2     \* a MAX_TURNS setting that sessions can reach
MaxFailures == 1    \* provider failures per session

DEFAULT_MAX_TURNS == 10
TOPIC_QUESTION_CAP == 2
PLAN_TOPIC_LIMIT == 8

None == -1          \* Python None where an integer is expected

(***************************************************************************)
(* Fixed texts of the program (abstracted to short tags).                  *)
(***************************************************************************)
INACTIVE_NOTICE == "interview-not-active"
FIRST_TURN_THOUGHT == "first-turn"
GENERIC_CONTINUE == "continue-interview"
VOICE_FILLER == "lets-move-to-next-question"
GENERIC_CHALLENGE == "challenge-generic"
REPORT_ERROR == "report-error: provider-error"

PROVIDER_ERROR == "provider-error"
ROUTER_ERROR_THOUGHT == "classification-error: provider-error, fallback to answer"
ANALYSIS_ERROR_THOUGHT == "analysis-error: provider-error"
ERROR_THOUGHT == "error: provider-error"
LLM_THOUGHT == "llm-thought"
HALLUCINATION_PREFIX == "HALLUCINATION! llm-thought"

\* One line "[Agent]: thought" of internal_debate; the debate is the sequence
\* of its lines (the empty string is the empty sequence).
Line(agent, thought) == <<agent, thought>>

UserMessages == {"", "msg"}

Intents == {"answer", "question", "off_topic", "stop"}

NextActions == {"continue", "next_topic", "answer_question", "handle_offtopic",
                "handle_hallucination", "finish"}

Get(d, key, default) == IF key \in DOMAIN d THEN d[key] ELSE default

Min(a, b) == IF a < b THEN a ELSE b

(***************************************************************************)
(* Session state.  The keys of InterviewState are the channels of the      *)
(* workflow; metadata and the topic fields that no node writes             *)
(* (difficulty, rationale, feedback, correct_answer, weak_answers) are     *)
(* left out.                                                               *)
(***************************************************************************)
Topic(i, label) ==
    [id |-> i, topic |-> label, status |-> "pending", score |-> None,
     questions_asked |-> 0]

NoFeedback == [present |-> FALSE]

create_initial_state ==
    [interview_plan |-> <<>>,
     current_topic_index |-> 0,
     behavioral_context |->
        [demeanor |-> "normal", protocol |-> "standard", stress_level |-> "low",
         hallucination_count |-> 0, off_topic_count |-> 0],
     messages |-> <<>>,
     internal_debate |-> <<>>,
     turns_log |-> <<>>,
     turn_id |-> 0,
     current_user_message |-> "",
     user_intent |-> "answer",
     skeptic_analysis |-> "",
     empath_analysis |-> "",
     planner_directive |-> "",
     router_thought |-> "",
     skeptic_thought |-> "",
     empath_thought |-> "",
     planner_thought |-> "",
     voice_thought |-> "",
     next_step |-> "router",
     should_end |-> FALSE,
     hallucination_detected |-> FALSE,
     current_response |-> "",
     final_feedback |-> NoFeedback,
     final_report_string |-> ""]

\* The channels of the compiled graph: the keys of the InterviewState schema.
SchemaKeys == DOMAIN create_initial_state

\* How the workflow merges a node's patch (or the input of invoke) into the
\* channels: keys outside the schema are dropped, "messages" is accumulated
\* with operator.add, every other key is overwritten.
ApplyPatch(st, p) ==
    [k \in DOMAIN st |->
        IF k \in DOMAIN p
        THEN IF k = "messages" THEN st[k] \o p[k] ELSE p[k]
        ELSE st[k]]

\* dict.update: plain last-writer-wins on every key.
Update(d, p) ==
    [k \in (DOMAIN d) \cup (DOMAIN p) |-> IF k \in DOMAIN p THEN p[k] ELSE d[k]]

(***************************************************************************)
(* Plan generation (create_interview_plan).                                *)
(***************************************************************************)
PlanResults ==
    {[ok |-> FALSE]} \cup {[ok |-> TRUE, n |-> n] : n \in 0..MaxTopics}

create_interview_plan(llm) ==
    IF llm.ok
    THEN [interview_plan |->
             [i \in 1..Min(llm.n, PLAN_TOPIC_LIMIT) |-> Topic(i, <<"topic", i>>)],
          current_topic_index |-> 0,
          planner_thought |-> LLM_THOUGHT]
    ELSE [interview_plan |-> <<Topic(1, <<"fallback", 1>>), Topic(2, <<"fallback", 2>>)>>,
          current_topic_index |-> 0,
          planner_thought |-> "fallback-plan: provider-error"]

(***************************************************************************)
(* Intent Classifier (router_node) and the edges out of it.                *)
(***************************************************************************)
RouterResults ==
    {[ok |-> FALSE]} \cup
    {[ok |-> TRUE, intent |-> i, internal_thought |-> LLM_THOUGHT] : i \in Intents}

\* A provider thought that contains one of the words
\* count_unanswered_questions looks for.
OFF_TOPIC_THOUGHT == "off-topic: llm-thought"

\* Whether router_node calls the provider at all.
RouterClassifies(st) == ~(st.turn_id = 0 \/ st.current_user_message = "")

\* Mutant: a failed classification is treated as a request to stop.
router_node_FailsClosed(st, llm) ==
    IF ~RouterClassifies(st)
    THEN [user_intent |-> "answer", next_step |-> "quick_respond",
          router_thought |-> FIRST_TURN_THOUGHT]
    ELSE IF llm.ok
    THEN [user_intent |-> llm.intent,
          next_step |-> IF llm.intent = "answer" THEN "analyze"
                        ELSE IF llm.intent = "stop" THEN "end"
                        ELSE "quick_respond",
          router_thought |-> llm.internal_thought]
    ELSE [user_intent |-> "stop", next_step |-> "end",
          router_thought |-> ROUTER_ERROR_THOUGHT]

router_node(st, llm) ==
    IF ~RouterClassifies(st)
    THEN [user_intent |-> "answer", next_step |-> "quick_respond",
          router_thought |-> FIRST_TURN_THOUGHT]
    ELSE IF llm.ok
    THEN [user_intent |-> llm.intent,
          next_step |-> IF llm.intent = "answer" THEN "analyze"
                        ELSE IF llm.intent = "stop" THEN "end"
                        ELSE "quick_respond",
          router_thought |-> llm.internal_thought]
    ELSE [user_intent |-> "answer", next_step |-> "analyze",
          router_thought |-> ROUTER_ERROR_THOUGHT]

\* Mutant: the "end" step is not recognised and falls to the last branch.
route_from_router_NoEnd(st) ==
    IF st.turn_id = 0 THEN "planner"
    ELSE IF st.next_step = "analyze" THEN "parallel_analysis"
    ELSE "planner"

\* Mutant: every step but "end" is analysed.
route_from_router_AnalyzeAll(st) ==
    IF st.turn_id = 0 THEN "planner"
    ELSE IF st.next_step = "end" THEN "reporter"
    ELSE "parallel_analysis"

\* The conditional edge after the router, already resolved to the node.
route_from_router(st) ==
    IF st.turn_id = 0 THEN "planner"
    ELSE IF st.next_step = "end" THEN "reporter"
    ELSE IF st.next_step = "analyze" THEN "parallel_analysis"
    ELSE "planner"

route_from_planner(st) == IF st.should_end THEN "reporter" ELSE "voice"

(***************************************************************************)
(* Technical Evaluator (skeptic_node).                                     *)
(***************************************************************************)
SkepticResults ==
    {[ok |-> FALSE],
     [ok |-> TRUE, score |-> 8, accuracy |-> "exact",
      fictional_term_detected |-> FALSE, contradiction_detected |-> FALSE,
      correct_answer |-> ""],
     [ok |-> TRUE, score |-> 0, accuracy |-> "hallucination",
      fictional_term_detected |-> FALSE, contradiction_detected |-> FALSE,
      correct_answer |-> "fact"],
     [ok |-> TRUE, score |-> 7, accuracy |-> "incorrect",
      fictional_term_detected |-> TRUE, contradiction_detected |-> TRUE,
      correct_answer |-> ""]}

\* Mutant: the evaluator also counts contradictions in the behavioral context.
skeptic_node_WritesContext(st, llm) ==
    IF llm.ok
    THEN [skeptic_analysis |-> "[Skeptic]: llm-thought",
          skeptic_thought |-> LLM_THOUGHT,
          hallucination_detected |->
              (llm.accuracy = "hallucination" \/ llm.fictional_term_detected),
          behavioral_context |->
              [st.behavioral_context EXCEPT
                  !.off_topic_count = IF llm.contradiction_detected THEN @ + 1 ELSE @],
          _skeptic_score |-> llm.score,
          _skeptic_correct_answer |-> llm.correct_answer]
    ELSE [skeptic_analysis |-> "[Skeptic]: analysis-error: provider-error",
          skeptic_thought |-> ANALYSIS_ERROR_THOUGHT,
          hallucination_detected |-> FALSE]

\* Mutant: a detected contradiction is counted in the behavioral context.
skeptic_node_CountsContradictions(st, llm) ==
    IF llm.ok
    THEN [skeptic_analysis |-> "[Skeptic]: llm-thought",
          skeptic_thought |-> LLM_THOUGHT,
          hallucination_detected |->
              (llm.accuracy = "hallucination" \/ llm.fictional_term_detected),
          behavioral_context |->
              Update(st.behavioral_context,
                     [contradiction_count |->
                          Get(st.behavioral_context, "contradiction_count", 0) +
                              (IF llm.contradiction_detected THEN 1 ELSE 0)]),
          _skeptic_score |-> llm.score,
          _skeptic_accuracy |-> llm.accuracy,
          _skeptic_depth |-> "adequate",
          _skeptic_correct_answer |-> llm.correct_answer,
          _skeptic_issues |-> <<>>,
          _contradiction_detected |-> llm.contradiction_detected,
          _fictional_term_detected |-> llm.fictional_term_detected]
    ELSE [skeptic_analysis |-> "[Skeptic]: analysis-error: provider-error",
          skeptic_thought |-> ANALYSIS_ERROR_THOUGHT,
          hallucination_detected |-> FALSE]

skeptic_node(st, llm) ==
    IF llm.ok
    THEN [skeptic_analysis |-> "[Skeptic]: llm-thought",
          skeptic_thought |-> LLM_THOUGHT,
          hallucination_detected |->
              (llm.accuracy = "hallucination" \/ llm.fictional_term_detected),
          _skeptic_score |-> llm.score,
          _skeptic_accuracy |-> llm.accuracy,
          _skeptic_depth |-> "adequate",
          _skeptic_correct_answer |-> llm.correct_answer,
          _skeptic_issues |-> <<>>,
          _contradiction_detected |-> llm.contradiction_detected,
          _fictional_term_detected |-> llm.fictional_term_detected]
    ELSE [skeptic_analysis |-> "[Skeptic]: analysis-error: provider-error",
          skeptic_thought |-> ANALYSIS_ERROR_THOUGHT,
          hallucination_detected |-> FALSE]

(***************************************************************************)
(* Behavioral Evaluator (empath_node).                                     *)
(***************************************************************************)
EmpathResults ==
    {[ok |-> FALSE],
     [ok |-> TRUE, demeanor |-> "normal", stress_level |-> "low",
      recommended_protocol |-> "standard"],
     [ok |-> TRUE, demeanor |-> "stuck", stress_level |-> "high",
      recommended_protocol |-> "rescue"]}

\* Mutant: a failed behavioral analysis falls back to the default context.
empath_node_FailureResetsContext(st, llm) ==
    IF llm.ok
    THEN [empath_analysis |-> "[Empath]: llm-thought",
          empath_thought |-> LLM_THOUGHT,
          behavioral_context |->
              [st.behavioral_context EXCEPT
                  !.demeanor = llm.demeanor,
                  !.stress_level = llm.stress_level,
                  !.protocol = IF llm.recommended_protocol # "standard"
                               THEN llm.recommended_protocol ELSE @],
          _empath_clarity |-> 5,
          _empath_honesty |-> 5,
          _empath_engagement |-> "medium"]
    ELSE [empath_analysis |-> "[Empath]: analysis-error: provider-error",
          empath_thought |-> ANALYSIS_ERROR_THOUGHT,
          behavioral_context |-> create_initial_state.behavioral_context]

\* Mutant: the recommendation is written whatever it is.
empath_node_StandardOverwrites(st, llm) ==
    IF llm.ok
    THEN [empath_analysis |-> "[Empath]: llm-thought",
          empath_thought |-> LLM_THOUGHT,
          behavioral_context |->
              [st.behavioral_context EXCEPT
                  !.demeanor = llm.demeanor,
                  !.stress_level = llm.stress_level,
                  !.protocol = llm.recommended_protocol],
          _empath_clarity |-> 5,
          _empath_honesty |-> 5,
          _empath_engagement |-> "medium"]
    ELSE [empath_analysis |-> "[Empath]: analysis-error: provider-error",
          empath_thought |-> ANALYSIS_ERROR_THOUGHT]

empath_node(st, llm) ==
    IF llm.ok
    THEN [empath_analysis |-> "[Empath]: llm-thought",
          empath_thought |-> LLM_THOUGHT,
          behavioral_context |->
              [st.behavioral_context EXCEPT
                  !.demeanor = llm.demeanor,
                  !.stress_level = llm.stress_level,
                  !.protocol = IF llm.recommended_protocol # "standard"
                               THEN llm.recommended_protocol ELSE @],
          _empath_clarity |-> 5,
          _empath_honesty |-> 5,
          _empath_engagement |-> "medium"]
    ELSE [empath_analysis |-> "[Empath]: analysis-error: provider-error",
          empath_thought |-> ANALYSIS_ERROR_THOUGHT]

(***************************************************************************)
(* parallel_analysis_node: the two evaluator tasks complete in any order;  *)
(* results holds <<agent, patch>> in completion order.                     *)
(***************************************************************************)
ResultOf(res, agent) ==
    LET hits == {i \in 1..Len(res) : res[i][1] = agent}
    IN  IF hits = {} THEN <<>> ELSE res[CHOOSE i \in hits : TRUE][2]

Done(res, agent) == \E i \in 1..Len(res) : res[i][1] = agent

EmptyPatch == [k \in {} |-> 0]

\* Mutant: a failed task makes the node return nothing.
merged_result_DropsOnFailure(res) ==
    LET failed ==
            \/ Get(ResultOf(res, "skeptic"), "skeptic_thought", "") = ANALYSIS_ERROR_THOUGHT
            \/ Get(ResultOf(res, "empath"), "empath_thought", "") = ANALYSIS_ERROR_THOUGHT
        m1 == IF Done(res, "skeptic")
              THEN Update(EmptyPatch, ResultOf(res, "skeptic")) ELSE EmptyPatch
        m2 == IF Done(res, "empath") THEN Update(m1, ResultOf(res, "empath")) ELSE m1
    IN  IF failed THEN EmptyPatch ELSE m2

\* merged_result: the skeptic's patch first, then the empath's.
merged_result(res) ==
    LET m1 == IF Done(res, "skeptic")
              THEN Update(EmptyPatch, ResultOf(res, "skeptic")) ELSE EmptyPatch
    IN  IF Done(res, "empath") THEN Update(m1, ResultOf(res, "empath")) ELSE m1

(***************************************************************************)
(* Strategic Coordinator (planner_node): opening, fast and full mode.      *)
(***************************************************************************)
LLM_DIRECTIVE == "llm-directive"
OPENING_DIRECTIVE == "greet-and-ask-first-question"

QuickPlannerResults == {[ok |-> FALSE], [ok |-> TRUE]}

\* A score with every next_action, and one result without a score that
\* changes the protocol.
PlannerResults ==
    {[ok |-> FALSE]} \cup
    {[ok |-> TRUE, topic_score |-> 8, next_action |-> a, new_protocol |-> "standard"] :
        a \in NextActions} \cup
    {[ok |-> TRUE, topic_score |-> None, next_action |-> "continue",
      new_protocol |-> "stress_test"]}

\* Index (0-based) of the first pending topic, or the plan's length.
find_next_pending_topic(plan) ==
    LET pend == {i \in 1..Len(plan) : plan[i].status = "pending"}
    IN  IF pend = {} THEN Len(plan)
        ELSE (CHOOSE i \in pend : \A j \in pend : i <= j) - 1

\* Mutant: the opening turn opens every topic of the plan.
first_turn_plan_inplace_OpensAll(st) ==
    [st EXCEPT !.interview_plan =
        [i \in 1..Len(st.interview_plan) |->
            [st.interview_plan[i] EXCEPT !.status = "in_progress"]]]

\* Mutant: the opening turn opens the last topic of the plan.
first_turn_plan_inplace_OpensLast(st) ==
    IF st.interview_plan # <<>>
    THEN [st EXCEPT !.interview_plan[Len(st.interview_plan)].status = "in_progress"]
    ELSE st

\* first_turn_plan writes the status of topic 0 into the plan it was given.
first_turn_plan_inplace(st) ==
    IF st.interview_plan # <<>>
    THEN [st EXCEPT !.interview_plan[1].status = "in_progress"]
    ELSE st

first_turn_plan(st) ==
    [planner_directive |-> OPENING_DIRECTIVE,
     planner_thought |-> "opening",
     internal_debate |-> <<Line("Planner", "opening")>>,
     next_step |-> "respond"]

\* Mutant: fast mode counts the off-topic turn in the behavioral context.
quick_plan_CountsOffTopic(st, llm) ==
    [planner_directive |-> IF llm.ok THEN LLM_DIRECTIVE ELSE GENERIC_CONTINUE,
     planner_thought |-> IF llm.ok THEN LLM_THOUGHT ELSE ERROR_THOUGHT,
     internal_debate |-> <<Line("Planner", IF llm.ok THEN LLM_THOUGHT ELSE ERROR_THOUGHT)>>,
     behavioral_context |->
         [st.behavioral_context EXCEPT
             !.off_topic_count = IF st.user_intent = "off_topic" THEN @ + 1 ELSE @],
     next_step |-> "respond"]

quick_plan(st, llm) ==
    IF llm.ok
    THEN [planner_directive |-> LLM_DIRECTIVE,
          planner_thought |-> LLM_THOUGHT,
          internal_debate |-> <<Line("Router", Get(st, "router_thought", "")),
                                Line("Planner", LLM_THOUGHT)>>,
          next_step |-> "respond"]
    ELSE [planner_directive |-> GENERIC_CONTINUE,
          planner_thought |-> ERROR_THOUGHT,
          internal_debate |-> <<Line("Planner", ERROR_THOUGHT)>>,
          next_step |-> "respond"]

\* Mutant: a turn without a score is not counted.
ScoredPlan_CountsScoredOnly(plan, idx, topic_score) ==
    IF idx < Len(plan) /\ topic_score # None
    THEN [plan EXCEPT ![idx + 1].score = topic_score,
                      ![idx + 1].questions_asked = @ + 1]
    ELSE plan

\* Step 1 of full_plan on the current topic: the score and the counter.
ScoredPlan(plan, idx, topic_score) ==
    IF idx < Len(plan)
    THEN [plan EXCEPT ![idx + 1].score = IF topic_score # None THEN topic_score ELSE @,
                      ![idx + 1].questions_asked = @ + 1]
    ELSE plan

MoveToNext_CapOfThree(plan, idx) ==
    idx < Len(plan) /\ plan[idx + 1].questions_asked >= TOPIC_QUESTION_CAP + 1

MoveToNext(plan, idx) ==
    idx < Len(plan) /\ plan[idx + 1].questions_asked >= TOPIC_QUESTION_CAP

Transition_KeepsCurrentOpen(plan, idx) ==
    LET nxt == find_next_pending_topic(plan)
    IN  [plan |-> IF nxt < Len(plan)
                  THEN [plan EXCEPT ![nxt + 1].status = "in_progress"] ELSE plan,
         index |-> nxt]

\* Mutant: the transition closes the next pending topic as well.
Transition_ClosesNext(plan, idx) ==
    LET closed == IF idx < Len(plan)
                  THEN [plan EXCEPT ![idx + 1].status = "completed"] ELSE plan
        nxt == find_next_pending_topic(closed)
    IN  [plan |-> IF nxt < Len(closed)
                  THEN [closed EXCEPT ![nxt + 1].status = "completed"] ELSE closed,
         index |-> nxt]

\* Mutant: the transition closes the current topic and opens none.
Transition_OpensNone(plan, idx) ==
    LET closed == IF idx < Len(plan)
                  THEN [plan EXCEPT ![idx + 1].status = "completed"] ELSE plan
    IN  [plan |-> closed, index |-> find_next_pending_topic(closed)]

\* The topic transition of full_plan.
Transition(plan, idx) ==
    LET closed == IF idx < Len(plan)
                  THEN [plan EXCEPT ![idx + 1].status = "completed"] ELSE plan
        nxt == find_next_pending_topic(closed)
    IN  [plan |-> IF nxt < Len(closed)
                  THEN [closed EXCEPT ![nxt + 1].status = "in_progress"] ELSE closed,
         index |-> nxt]

\* updated_plan, new_topic_index and move_to_next of full_plan.
PlanUpdate(st, llm) ==
    LET idx == st.current_topic_index
        scored == ScoredPlan(st.interview_plan, idx, llm.topic_score)
        move == MoveToNext(scored, idx)
    IN  IF llm.next_action = "next_topic" \/ move
        THEN [plan |-> Transition(scored, idx).plan,
              index |-> Transition(scored, idx).index,
              move_to_next |-> move]
        ELSE [plan |-> scored, index |-> idx, move_to_next |-> move]

\* Mutant: the provider's finish action is not looked at.
ShouldEnd_IgnoresFinish(next_action, new_topic_index, plan, turn_id, limit) ==
    \/ new_topic_index >= Len(plan)
    \/ turn_id >= limit

\* Mutant: the turn limit is not looked at.
ShouldEnd_NoTurnLimit(next_action, new_topic_index, plan, turn_id, limit) ==
    \/ next_action = "finish"
    \/ new_topic_index >= Len(plan)

ShouldEnd(next_action, new_topic_index, plan, turn_id, limit) ==
    \/ next_action = "finish"
    \/ new_topic_index >= Len(plan)
    \/ turn_id >= limit

FullDebate(st) ==
    (IF Get(st, "router_thought", "") # ""
        THEN <<Line("Router", st.router_thought)>> ELSE <<>>) \o
    (IF Get(st, "skeptic_thought", "") # ""
        THEN <<Line("Skeptic", st.skeptic_thought)>> ELSE <<>>) \o
    (IF Get(st, "empath_thought", "") # ""
        THEN <<Line("Empath", st.empath_thought)>> ELSE <<>>) \o
    <<Line("Planner", LLM_THOUGHT)>>

ChallengeDirective(st) ==
    LET correct_answer == Get(st, "_skeptic_correct_answer", "")
    IN  IF correct_answer # "" THEN "challenge: " \o correct_answer
        ELSE GENERIC_CHALLENGE

\* Mutant: the counter of the current topic is raised before the provider call.
full_plan_inplace_CountsBeforeCall(st, llm) ==
    IF llm.ok THEN [st EXCEPT !.interview_plan = PlanUpdate(st, llm).plan]
    ELSE [st EXCEPT !.interview_plan =
              ScoredPlan(st.interview_plan, st.current_topic_index, None)]

\* The topic records are shared between updated_plan and the plan full_plan
\* was given, so a successful call also rewrites the given plan.
full_plan_inplace(st, llm) ==
    IF llm.ok THEN [st EXCEPT !.interview_plan = PlanUpdate(st, llm).plan] ELSE st

\* Mutant: the provider's protocol is written whatever it is.
full_plan_ProtocolAlwaysWritten(st, llm, limit) ==
    IF llm.ok
    THEN LET u == PlanUpdate(st, llm)
             halluc == Get(st, "hallucination_detected", FALSE)
             should_end == ShouldEnd(llm.next_action, u.index, u.plan,
                                     st.turn_id, limit)
         IN  [interview_plan |-> u.plan,
              current_topic_index |-> u.index,
              planner_directive |-> IF halluc THEN ChallengeDirective(st)
                                    ELSE LLM_DIRECTIVE,
              planner_thought |-> IF halluc THEN HALLUCINATION_PREFIX
                                  ELSE LLM_THOUGHT,
              internal_debate |-> FullDebate(st),
              behavioral_context |->
                  [st.behavioral_context EXCEPT
                      !.protocol = llm.new_protocol,
                      !.hallucination_count = IF halluc THEN @ + 1 ELSE @],
              _move_to_next_topic |-> u.move_to_next,
              should_end |-> should_end,
              next_step |-> IF should_end THEN "end" ELSE "respond"]
    ELSE [planner_directive |-> GENERIC_CONTINUE,
          planner_thought |-> ERROR_THOUGHT,
          internal_debate |-> <<Line("Planner", ERROR_THOUGHT)>>,
          next_step |-> "respond"]

\* Mutant: a failed call still applies the turn limit.
full_plan_FailureChecksLimit(st, llm, limit) ==
    IF llm.ok
    THEN LET u == PlanUpdate(st, llm)
             halluc == Get(st, "hallucination_detected", FALSE)
             should_end == ShouldEnd(llm.next_action, u.index, u.plan,
                                     st.turn_id, limit)
         IN  [interview_plan |-> u.plan,
              current_topic_index |-> u.index,
              planner_directive |-> IF halluc THEN ChallengeDirective(st)
                                    ELSE LLM_DIRECTIVE,
              planner_thought |-> IF halluc THEN HALLUCINATION_PREFIX
                                  ELSE LLM_THOUGHT,
              internal_debate |-> FullDebate(st),
              behavioral_context |->
                  [st.behavioral_context EXCEPT
                      !.protocol = IF llm.new_protocol # "standard"
                                   THEN llm.new_protocol ELSE @,
                      !.hallucination_count = IF halluc THEN @ + 1 ELSE @],
              _move_to_next_topic |-> u.move_to_next,
              should_end |-> should_end,
              next_step |-> IF should_end THEN "end" ELSE "respond"]
    ELSE [planner_directive |-> GENERIC_CONTINUE,
          planner_thought |-> ERROR_THOUGHT,
          internal_debate |-> <<Line("Planner", ERROR_THOUGHT)>>,
          should_end |-> st.turn_id >= limit,
          next_step |-> IF st.turn_id >= limit THEN "end" ELSE "respond"]

\* Mutant: a detected hallucination is challenged but not counted.
full_plan_NoHallucinationCount(st, llm, limit) ==
    IF llm.ok
    THEN LET u == PlanUpdate(st, llm)
             halluc == Get(st, "hallucination_detected", FALSE)
             should_end == ShouldEnd(llm.next_action, u.index, u.plan,
                                     st.turn_id, limit)
         IN  [interview_plan |-> u.plan,
              current_topic_index |-> u.index,
              planner_directive |-> IF halluc THEN ChallengeDirective(st)
                                    ELSE LLM_DIRECTIVE,
              planner_thought |-> IF halluc THEN HALLUCINATION_PREFIX
                                  ELSE LLM_THOUGHT,
              internal_debate |-> FullDebate(st),
              behavioral_context |->
                  [st.behavioral_context EXCEPT
                      !.protocol = IF llm.new_protocol # "standard"
                                   THEN llm.new_protocol ELSE @],
              _move_to_next_topic |-> u.move_to_next,
              should_end |-> should_end,
              next_step |-> IF should_end THEN "end" ELSE "respond"]
    ELSE [planner_directive |-> GENERIC_CONTINUE,
          planner_thought |-> ERROR_THOUGHT,
          internal_debate |-> <<Line("Planner", ERROR_THOUGHT)>>,
          next_step |-> "respond"]

full_plan(st, llm, limit) ==
    IF llm.ok
    THEN LET u == PlanUpdate(st, llm)
             halluc == Get(st, "hallucination_detected", FALSE)
             should_end == ShouldEnd(llm.next_action, u.index, u.plan,
                                     st.turn_id, limit)
         IN  [interview_plan |-> u.plan,
              current_topic_index |-> u.index,
              planner_directive |-> IF halluc THEN ChallengeDirective(st)
                                    ELSE LLM_DIRECTIVE,
              planner_thought |-> IF halluc THEN HALLUCINATION_PREFIX
                                  ELSE LLM_THOUGHT,
              internal_debate |-> FullDebate(st),
              behavioral_context |->
                  [st.behavioral_context EXCEPT
                      !.protocol = IF llm.new_protocol # "standard"
                                   THEN llm.new_protocol ELSE @,
                      !.hallucination_count = IF halluc THEN @ + 1 ELSE @],
              _move_to_next_topic |-> u.move_to_next,
              should_end |-> should_end,
              next_step |-> IF should_end THEN "end" ELSE "respond"]
    ELSE [planner_directive |-> GENERIC_CONTINUE,
          planner_thought |-> ERROR_THOUGHT,
          internal_debate |-> <<Line("Planner", ERROR_THOUGHT)>>,
          next_step |-> "respond"]

\* Mutant: a turn the router did not send to analysis runs in fast mode.
PlannerMode_UnanalysedIsFast(st) ==
    IF Get(st, "turn_id", 0) = 0 THEN "opening"
    ELSE IF Get(st, "user_intent", "answer") \in {"question", "off_topic"} THEN "fast"
    ELSE IF Get(st, "next_step", "") = "quick_respond" THEN "fast"
    ELSE "full"

\* Which mode planner_node runs in.
PlannerMode(st) ==
    IF Get(st, "turn_id", 0) = 0 THEN "opening"
    ELSE IF Get(st, "user_intent", "answer") \in {"question", "off_topic"} THEN "fast"
    ELSE "full"

\* The provider results planner_node can receive in the mode it runs in
\* (opening mode calls no provider).
PlannerInputs(st) ==
    CASE PlannerMode(st) = "opening" -> {[ok |-> TRUE]}
      [] PlannerMode(st) = "fast" -> QuickPlannerResults
      [] OTHER -> PlannerResults

planner_node_inplace(st, llm) ==
    CASE PlannerMode(st) = "opening" -> first_turn_plan_inplace(st)
      [] PlannerMode(st) = "fast" -> st
      [] OTHER -> full_plan_inplace(st, llm)

planner_node(st, llm, limit) ==
    CASE PlannerMode(st) = "opening" -> first_turn_plan(st)
      [] PlannerMode(st) = "fast" -> quick_plan(st, llm)
      [] OTHER -> full_plan(st, llm, limit)

(***************************************************************************)
(* Dialogue Renderer (voice_node).                                         *)
(***************************************************************************)
VoiceResults == {[ok |-> FALSE], [ok |-> TRUE, message |-> "question"]}

voice_node_NoCountOnFailure(st, llm) ==
    LET user_message == Get(st, "current_user_message", "")
        turn_id == Get(st, "turn_id", 0)
    IN  IF llm.ok
        THEN [messages |->
                  (IF user_message # ""
                   THEN <<[role |-> "user", content |-> user_message]>> ELSE <<>>)
                  \o <<[role |-> "assistant", content |-> llm.message]>>,
              voice_thought |-> LLM_THOUGHT,
              current_response |-> llm.message,
              internal_debate |->
                  Get(st, "internal_debate", <<>>) \o <<Line("Voice", LLM_THOUGHT)>>,
              turn_id |-> turn_id + 1,
              next_step |-> "router"]
        ELSE [messages |-> <<[role |-> "assistant", content |-> VOICE_FILLER]>>,
              voice_thought |-> ERROR_THOUGHT,
              current_response |-> VOICE_FILLER,
              internal_debate |-> <<Line("Voice", ERROR_THOUGHT)>>,
              next_step |-> "router"]

\* Mutant: a failed rendering ends the interview.
voice_node_FailureEnds(st, llm) ==
    LET user_message == Get(st, "current_user_message", "")
        turn_id == Get(st, "turn_id", 0)
    IN  IF llm.ok
        THEN [messages |->
                  (IF user_message # ""
                   THEN <<[role |-> "user", content |-> user_message]>> ELSE <<>>)
                  \o <<[role |-> "assistant", content |-> llm.message]>>,
              voice_thought |-> LLM_THOUGHT,
              current_response |-> llm.message,
              internal_debate |->
                  Get(st, "internal_debate", <<>>) \o <<Line("Voice", LLM_THOUGHT)>>,
              turn_id |-> turn_id + 1,
              next_step |-> "router"]
        ELSE [messages |-> <<[role |-> "assistant", content |-> VOICE_FILLER]>>,
              voice_thought |-> ERROR_THOUGHT,
              current_response |-> VOICE_FILLER,
              internal_debate |-> <<Line("Voice", ERROR_THOUGHT)>>,
              turn_id |-> turn_id + 1,
              should_end |-> TRUE,
              next_step |-> "end"]

voice_node(st, llm) ==
    LET user_message == Get(st, "current_user_message", "")
        turn_id == Get(st, "turn_id", 0)
    IN  IF llm.ok
        THEN [messages |->
                  (IF user_message # ""
                   THEN <<[role |-> "user", content |-> user_message]>> ELSE <<>>)
                  \o <<[role |-> "assistant", content |-> llm.message]>>,
              voice_thought |-> LLM_THOUGHT,
              current_response |-> llm.message,
              internal_debate |->
                  Get(st, "internal_debate", <<>>) \o <<Line("Voice", LLM_THOUGHT)>>,
              turn_id |-> turn_id + 1,
              next_step |-> "router"]
        ELSE [messages |-> <<[role |-> "assistant", content |-> VOICE_FILLER]>>,
              voice_thought |-> ERROR_THOUGHT,
              current_response |-> VOICE_FILLER,
              internal_debate |-> <<Line("Voice", ERROR_THOUGHT)>>,
              turn_id |-> turn_id + 1,
              next_step |-> "router"]

(***************************************************************************)
(* Report Generator (reporter_node).                                       *)
(***************************************************************************)
ReporterResults ==
    {[ok |-> FALSE]} \cup
    {[ok |-> TRUE, hiring_recommendation |-> r] : r \in {"Strong Hire"}}

\* Indices of the scored topics on either side of the threshold of 7.
SkillTopics(plan, confirmed) ==
    {i \in 1..Len(plan) :
        /\ plan[i].score # None
        /\ (plan[i].score >= 7) = confirmed}

\* Thoughts that contain one of the not-answered indicators.
IndicatorThoughts == {OFF_TOPIC_THOUGHT}

\* The number of logged turns whose internal thoughts contain an indicator.
count_unanswered_questions(turns_log) ==
    Cardinality({i \in 1..Len(turns_log) :
        \E k \in 1..Len(turns_log[i].internal_thoughts) :
            turns_log[i].internal_thoughts[k][2] \in IndicatorThoughts})

\* Mutant: a failed report leaves the report string empty.
reporter_node_SilentFailure(st, llm) ==
    IF llm.ok
    THEN [final_feedback |->
              [present |-> TRUE,
               hiring_recommendation |-> llm.hiring_recommendation,
               confirmed_skills |-> SkillTopics(st.interview_plan, TRUE),
               knowledge_gaps |-> SkillTopics(st.interview_plan, FALSE)],
          final_report_string |-> "report: " \o llm.hiring_recommendation,
          reporter_thought |-> LLM_THOUGHT,
          internal_debate |-> <<Line("Reporter", LLM_THOUGHT)>>,
          should_end |-> TRUE]
    ELSE [final_feedback |-> NoFeedback,
          final_report_string |-> "",
          reporter_thought |-> ERROR_THOUGHT,
          internal_debate |-> <<Line("Reporter", ERROR_THOUGHT)>>,
          should_end |-> TRUE]

reporter_node(st, llm) ==
    IF llm.ok
    THEN [final_feedback |->
              [present |-> TRUE,
               hiring_recommendation |-> llm.hiring_recommendation,
               confirmed_skills |-> SkillTopics(st.interview_plan, TRUE),
               knowledge_gaps |-> SkillTopics(st.interview_plan, FALSE)],
          final_report_string |-> "report: " \o llm.hiring_recommendation,
          reporter_thought |-> LLM_THOUGHT,
          internal_debate |-> <<Line("Reporter", LLM_THOUGHT)>>,
          should_end |-> TRUE]
    ELSE [final_feedback |-> NoFeedback,
          final_report_string |-> REPORT_ERROR,
          reporter_thought |-> ERROR_THOUGHT,
          internal_debate |-> <<Line("Reporter", ERROR_THOUGHT)>>,
          should_end |-> TRUE]

(***************************************************************************)
(* The session object and the workflow.                                    *)
(***************************************************************************)
\* graph.invoke reads its input through the schema: other keys are dropped.
GraphInput(st) == [k \in SchemaKeys |-> st[k]]

\* The last assistant message of the history ("" when there is none).
LastAssistant(messages) ==
    LET hits == {i \in 1..Len(messages) : messages[i].role = "assistant"}
    IN  IF hits = {} THEN ""
        ELSE messages[CHOOSE i \in hits : \A j \in hits : j <= i].content

\* The interviewer text a handler extracts from the workflow's result.
AgentResponse(result) ==
    IF result.current_response # "" THEN result.current_response
    ELSE LastAssistant(result.messages)

\* What a handler remembers of the state it started from.
Snapshot(st) ==
    [interview_plan |-> st.interview_plan,
     current_topic_index |-> st.current_topic_index,
     behavioral_context |-> st.behavioral_context,
     should_end |-> st.should_end,
     final_feedback |-> st.final_feedback,
     final_report_string |-> st.final_report_string]

NoSnapshot == [none |-> TRUE]

\* A provider call may fail only while the failure budget lasts.
Allowed(llm) == llm.ok \/ failures < MaxFailures
Counted(llm) == failures + (IF llm.ok THEN 0 ELSE 1)

InitWith(limit) ==
    /\ state = create_initial_state
    /\ is_active = FALSE
    /\ last_agent_message = ""
    /\ pc = "new"
    /\ handler = "none"
    /\ current_turn_id = 0
    /\ entry = NoSnapshot
    /\ results = <<>>
    /\ path = <<>>
    /\ ret = ""
    /\ max_turns = limit
    /\ failures = 0
    /\ logged = <<>>

\* A new InterviewCoach in an environment that does not set MAX_TURNS.
Init == InitWith(DEFAULT_MAX_TURNS)

\* start_interview up to the point where the workflow is invoked.
StartWith(llm) ==
    /\ pc = "new"
    /\ Allowed(llm)
    /\ failures' = Counted(llm)
    /\ state' = GraphInput(
           [Update(create_initial_state, create_interview_plan(llm))
               EXCEPT !.turn_id = 0, !.current_user_message = "",
                      !.turns_log = <<>>])
    /\ entry' = Snapshot(state')
    /\ pc' = "router"
    /\ handler' = "start"
    /\ path' = <<>>
    /\ UNCHANGED <<logged, is_active, last_agent_message, current_turn_id, results, ret,
                   max_turns>>

StartInterview == \E llm \in PlanResults : StartWith(llm)

\* process_message on a session that is not active: the notice, nothing else.
ProcessMessageInactive ==
    /\ pc \in {"new", "wait"}
    /\ ~is_active
    /\ ret' = INACTIVE_NOTICE
    /\ UNCHANGED <<logged, state, is_active, last_agent_message, pc, handler,
                   current_turn_id, entry, results, path, max_turns, failures>>

\* Mutant: process_message does not look at is_active.
SessionAccepts_Always == TRUE

\* The guard of process_message: only an active session runs the workflow.
SessionAccepts == is_active

\* process_message on an active session, up to the invocation of the
\* workflow; at most msgs candidate messages are sent to one session.
AcceptMessage(user_message, msgs) ==
    /\ pc = "wait"
    /\ SessionAccepts
    /\ Len(state.turns_log) < msgs
    /\ state' = GraphInput(
           Update(state,
                  [current_user_message |-> user_message,
                   skeptic_analysis |-> "", empath_analysis |-> "",
                   planner_directive |-> "", internal_debate |-> <<>>,
                   hallucination_detected |-> FALSE,
                   router_thought |-> "", skeptic_thought |-> "",
                   empath_thought |-> "", planner_thought |-> "",
                   voice_thought |-> "", _move_to_next_topic |-> FALSE]))
    /\ current_turn_id' = state.turn_id
    /\ entry' = Snapshot(state)
    /\ pc' = "router"
    /\ handler' = "process"
    /\ path' = <<>>
    /\ UNCHANGED <<logged, is_active, last_agent_message, results, ret, max_turns, failures>>

ProcessMessage == \E user_message \in UserMessages : AcceptMessage(user_message, MaxMsgs)

\* The provider results router_node can receive (none when it does not call).
RouterInputs(st) == IF RouterClassifies(st) THEN RouterResults ELSE {[ok |-> TRUE]}

RouterStep(llm) ==
    /\ pc = "router"
    /\ Allowed(llm)
    /\ failures' = Counted(llm)
    /\ state' = ApplyPatch(state, router_node(state, llm))
    /\ pc' = route_from_router(state')
    /\ path' = Append(path, "router")
    /\ results' = <<>>
    /\ UNCHANGED <<logged, is_active, last_agent_message, handler, current_turn_id, entry,
                   ret, max_turns>>

Router == \E llm \in RouterInputs(state) : RouterStep(llm)

\* One evaluator task of parallel_analysis_node completes.
SkepticStep(llm) ==
    /\ pc = "parallel_analysis"
    /\ ~Done(results, "skeptic")
    /\ Allowed(llm)
    /\ failures' = Counted(llm)
    /\ results' = Append(results, <<"skeptic", skeptic_node(state, llm)>>)
    /\ UNCHANGED <<logged, state, is_active, last_agent_message, pc, handler,
                   current_turn_id, entry, path, ret, max_turns>>

SkepticTask == \E llm \in SkepticResults : SkepticStep(llm)

EmpathStep(llm) ==
    /\ pc = "parallel_analysis"
    /\ ~Done(results, "empath")
    /\ Allowed(llm)
    /\ failures' = Counted(llm)
    /\ results' = Append(results, <<"empath", empath_node(state, llm)>>)
    /\ UNCHANGED <<logged, state, is_active, last_agent_message, pc, handler,
                   current_turn_id, entry, path, ret, max_turns>>

EmpathTask == \E llm \in EmpathResults : EmpathStep(llm)

\* Both tasks are done: the node returns merged_result.
ParallelMerge ==
    /\ pc = "parallel_analysis"
    /\ Done(results, "skeptic") /\ Done(results, "empath")
    /\ state' = ApplyPatch(state, merged_result(results))
    /\ pc' = "planner"
    /\ path' = Append(path, "parallel_analysis")
    /\ results' = <<>>
    /\ UNCHANGED <<logged, is_active, last_agent_message, handler, current_turn_id, entry,
                   ret, max_turns, failures>>

\* The planner node with the provider result llm.
PlannerCall(llm) ==
    /\ pc = "planner"
    /\ state' = ApplyPatch(planner_node_inplace(state, llm),
                           planner_node(state, llm, max_turns))
    /\ pc' = route_from_planner(state')
    /\ path' = Append(path, "planner")
    /\ UNCHANGED <<logged, is_active, last_agent_message, handler, current_turn_id,
                   entry, results, ret, max_turns>>

PlannerStep(llm) ==
    /\ Allowed(llm)
    /\ failures' = Counted(llm)
    /\ PlannerCall(llm)

Planner == \E llm \in PlannerInputs(state) : PlannerStep(llm)

VoiceStep(llm) ==
    /\ pc = "voice"
    /\ Allowed(llm)
    /\ failures' = Counted(llm)
    /\ state' = ApplyPatch(state, voice_node(state, llm))
    /\ pc' = "finish"
    /\ path' = Append(path, "voice")
    /\ UNCHANGED <<logged, is_active, last_agent_message, handler, current_turn_id,
                   entry, results, ret, max_turns>>

Voice == \E llm \in VoiceResults : VoiceStep(llm)

ReporterStep(llm) ==
    /\ pc = "reporter"
    /\ Allowed(llm)
    /\ failures' = Counted(llm)
    /\ state' = ApplyPatch(state, reporter_node(state, llm))
    /\ pc' = "finish"
    /\ path' = Append(path, "reporter")
    /\ UNCHANGED <<logged, is_active, last_agent_message, handler, current_turn_id,
                   entry, results, ret, max_turns>>

Reporter == \E llm \in ReporterResults : ReporterStep(llm)

\* The rest of start_interview, after the workflow returned.
FinishStart ==
    /\ pc = "finish"
    /\ handler = "start"
    /\ is_active' = TRUE
    /\ last_agent_message' = AgentResponse(state)
    /\ ret' = AgentResponse(state)
    /\ pc' = "wait"
    /\ handler' = "none"
    /\ entry' = NoSnapshot
    /\ UNCHANGED <<logged, state, current_turn_id, results, path, max_turns, failures>>

\* Mutant: the message kept for the next record is not refreshed.
ProcessReturn_StaleMessage ==
    /\ pc = "finish"
    /\ handler = "process"
    /\ LET agent_response ==
               IF state.should_end /\ state.final_report_string # ""
               THEN state.final_report_string
               ELSE AgentResponse(state)
       IN  /\ is_active' = IF state.should_end THEN FALSE ELSE is_active
           /\ state' = [state EXCEPT !.turns_log = Append(@,
                  [turn_id |-> current_turn_id,
                   agent_visible_message |-> last_agent_message,
                   user_message |-> state.current_user_message,
                   internal_thoughts |-> state.internal_debate])]
           /\ last_agent_message' = last_agent_message
           /\ ret' = agent_response
    /\ pc' = "wait"
    /\ handler' = "none"
    /\ entry' = NoSnapshot
    /\ UNCHANGED <<current_turn_id, results, path, max_turns, failures>>

\* The rest of process_message, after the workflow returned.
ProcessReturn ==
    /\ pc = "finish"
    /\ handler = "process"
    /\ LET agent_response ==
               IF state.should_end /\ state.final_report_string # ""
               THEN state.final_report_string
               ELSE AgentResponse(state)
       IN  /\ is_active' = IF state.should_end THEN FALSE ELSE is_active
           /\ state' = [state EXCEPT !.turns_log = Append(@,
                  [turn_id |-> current_turn_id,
                   agent_visible_message |-> last_agent_message,
                   user_message |-> state.current_user_message,
                   internal_thoughts |-> state.internal_debate])]
           /\ last_agent_message' = agent_response
           /\ ret' = agent_response
    /\ pc' = "wait"
    /\ handler' = "none"
    /\ entry' = NoSnapshot
    /\ UNCHANGED <<current_turn_id, results, path, max_turns, failures>>

FinishProcess == ProcessReturn /\ UNCHANGED logged

Next ==
    \/ StartInterview
    \/ ProcessMessageInactive
    \/ ProcessMessage
    \/ Router
    \/ SkepticTask
    \/ EmpathTask
    \/ ParallelMerge
    \/ Planner
    \/ Voice
    \/ Reporter
    \/ FinishStart
    \/ FinishProcess

Spec == Init /\ [][Next]_vars

(***************************************************************************)
(* Properties.                                                             *)
(***************************************************************************)
InPath(node) == \E i \in 1..Len(path) : path[i] = node

LastNode == IF path = <<>> THEN "none" ELSE path[Len(path)]

WithStatus(plan, status) == {i \in 1..Len(plan) : plan[i].status = status}

\* C1: in every reachable state, between and inside invocations, whatever the
\* providers return, at most one topic of the plan is in_progress.
C1_AtMostOneInProgress ==
    Cardinality(WithStatus(state.interview_plan, "in_progress")) <= 1

\* A transition has happened: one topic is closed and another one is open.
C1_Witness ==
    /\ pc = "wait"
    /\ is_active
    /\ WithStatus(state.interview_plan, "completed") # {}
    /\ WithStatus(state.interview_plan, "in_progress") # {}

\* C2: no topic's questions-asked counter exceeds 2, and a topic whose counter
\* has reached 2 was closed by the turn that brought it there: no topic is
\* in_progress (or pending) with a counter of 2 or more.
C2_QuestionCap ==
    \A i \in 1..Len(state.interview_plan) :
        LET t == state.interview_plan[i]
        IN  /\ t.questions_asked <= TOPIC_QUESTION_CAP
            /\ t.questions_asked >= TOPIC_QUESTION_CAP => t.status = "completed"

\* The cap forced the transition although the provider asked to continue: the
\* session is still active, the capped topic is closed, the next one is open.
C2_Witness ==
    /\ pc = "wait"
    /\ is_active
    /\ \E i \in 1..Len(state.interview_plan) :
        /\ state.interview_plan[i].questions_asked = TOPIC_QUESTION_CAP
        /\ state.interview_plan[i].status = "completed"
    /\ WithStatus(state.interview_plan, "in_progress") # {}

\* C3 as claimed: when a workflow invocation has completed, whatever path it
\* took, the turn counter is one more than when the handler started.
C3_Original ==
    pc = "finish" => state.turn_id = current_turn_id + 1

\* C3, amended: the counter starts at 0, is never negative, keeps its value
\* until the Dialogue Renderer runs, and a completed invocation has raised it
\* by exactly 1 when it ended in the Dialogue Renderer and by 0 when it ended
\* in the Report Generator.
C3_TurnCounter ==
    /\ state.turn_id >= 0
    /\ pc = "new" => state.turn_id = 0
    /\ handler = "start" => current_turn_id = 0
    /\ pc \in {"router", "parallel_analysis", "planner", "voice", "reporter"}
           => state.turn_id = current_turn_id
    /\ pc = "finish" =>
           state.turn_id = current_turn_id + (IF LastNode = "voice" THEN 1 ELSE 0)

\* A candidate turn completed through the renderer although its provider failed.
C3_Witness ==
    /\ pc = "finish"
    /\ handler = "process"
    /\ LastNode = "voice"
    /\ state.voice_thought = ERROR_THOUGHT
    /\ state.turn_id = 2

\* The classifier has run in the current process_message invocation.
Classified == handler = "process" /\ InPath("router")

StateKept ==
    /\ state.interview_plan = entry.interview_plan
    /\ state.current_topic_index = entry.current_topic_index
    /\ state.behavioral_context = entry.behavioral_context

\* C4: on a turn whose intent is stop the router is followed by the Report
\* Generator in the same invocation, no evaluator and no coordinator runs, the
\* plan and the behavioral context stay what they were before the invocation,
\* and should_end is true when the invocation completes.
C4_StopGoesToReporter ==
    (Classified /\ state.user_intent = "stop") =>
        /\ pc \in {"reporter", "finish"}
        /\ ~InPath("parallel_analysis") /\ ~InPath("planner") /\ ~InPath("voice")
        /\ StateKept
        /\ pc = "finish" => (path = <<"router", "reporter">> /\ state.should_end)

\* A stop turn has completed on a session whose plan was already in use.
C4_Witness ==
    /\ Classified
    /\ state.user_intent = "stop"
    /\ pc = "finish"
    /\ \E i \in 1..Len(state.interview_plan) :
           state.interview_plan[i].questions_asked > 0

\* The provider was asked to classify the candidate message of this turn.
ProviderClassified == Classified /\ state.current_user_message # ""

\* The nodes a completed invocation ran, in order, are one of these.
CompletedPaths(evaluated, coordinated) ==
    IF evaluated
    THEN {<<"router", "parallel_analysis", "planner", "voice">>,
          <<"router", "parallel_analysis", "planner", "reporter">>}
    ELSE IF coordinated
    THEN {<<"router", "planner", "voice">>, <<"router", "planner", "reporter">>}
    ELSE {<<"router", "reporter">>}

\* C5 as claimed: on a completed candidate turn the evaluators have run if and
\* only if the intent of the turn is answer.
C5_Original ==
    (handler = "process" /\ pc = "finish") =>
        (InPath("parallel_analysis") <=> state.user_intent = "answer")

\* C5, amended: on a completed candidate turn (counter > 0) whose message the
\* classifier was asked about, intent answer (classified, or by the
\* classifier's failure) runs the evaluators and then the coordinator, intent
\* question or off_topic runs the coordinator and no evaluator, intent stop
\* runs the Report Generator and no coordinator; the evaluators run if and
\* only if the message was classified and the intent is answer.  An empty
\* message is not classified: its intent is forced to answer and it goes to
\* the coordinator with no evaluator run.
C5_Routing ==
    (handler = "process" /\ pc = "finish") =>
        /\ current_turn_id > 0
        /\ InPath("parallel_analysis") <=>
               (ProviderClassified /\ state.user_intent = "answer")
        /\ path \in CompletedPaths(
               ProviderClassified /\ state.user_intent = "answer",
               state.user_intent # "stop")
        /\ ~ProviderClassified => state.user_intent = "answer"

\* An answer turn and its evaluators have completed.
C5_Witness ==
    /\ handler = "process"
    /\ pc = "finish"
    /\ ProviderClassified
    /\ state.user_intent = "answer"
    /\ path = <<"router", "parallel_analysis", "planner", "voice">>

\* C6: when the classifier's provider call fails the intent is answer, never
\* stop, and the edge taken out of the classifier leads to the evaluators,
\* never to the Report Generator.
C6_ClassifierFailsOpen ==
    (Classified /\ state.router_thought = ROUTER_ERROR_THOUGHT) =>
        /\ state.user_intent = "answer"
        /\ Len(path) = 1 => pc = "parallel_analysis"
        /\ Len(path) > 1 => path[2] = "parallel_analysis"

\* The classifier failed and the turn went on through both evaluators.
C6_Witness ==
    /\ Classified
    /\ state.router_thought = ROUTER_ERROR_THOUGHT
    /\ pc = "planner"
    /\ state.skeptic_thought = LLM_THOUGHT
    /\ state.empath_thought = LLM_THOUGHT

\* The coordinator step that is being taken is a full-mode step whose
\* provider call fails.
FullModeFailure ==
    /\ pc = "planner"
    /\ PlannerMode(state) = "full"
    /\ state'.planner_thought = ERROR_THOUGHT

\* C7: a full-mode coordinator step whose provider call fails yields the
\* generic continue directive, leaves plan, current topic index, should_end
\* and behavioral context as they were when the coordinator was entered, and
\* hands the turn to the Dialogue Renderer with should_end false.
C7_FullModeFailureKeepsState ==
    [][FullModeFailure =>
        /\ state'.planner_directive = GENERIC_CONTINUE
        /\ state'.interview_plan = state.interview_plan
        /\ state'.current_topic_index = state.current_topic_index
        /\ state'.should_end = state.should_end
        /\ state'.behavioral_context = state.behavioral_context
        /\ ~state'.should_end
        /\ pc' = "voice"
        /\ is_active' = is_active]_vars

\* The coordinator failed on an evaluated answer whose topic had been asked
\* about before, after the Behavioral Evaluator had changed the context.
C7_Witness ==
    /\ pc = "voice"
    /\ handler = "process"
    /\ InPath("parallel_analysis")
    /\ state.planner_thought = ERROR_THOUGHT
    /\ state.behavioral_context # entry.behavioral_context
    /\ \E i \in 1..Len(state.interview_plan) :
        /\ state.interview_plan[i].status = "in_progress"
        /\ state.interview_plan[i].questions_asked = 1

\* C8: on a turn whose intent is question or off_topic, whether the
\* coordinator's provider call succeeds or fails, the plan, the current topic
\* index, should_end and the behavioral context are what they were before the
\* turn, and the turn goes router -> coordinator -> renderer: it is never
\* routed to the Report Generator.
C8_FastModeKeepsState ==
    (Classified /\ state.user_intent \in {"question", "off_topic"}) =>
        /\ StateKept
        /\ state.should_end = entry.should_end
        /\ ~state.should_end
        /\ pc \in {"planner", "voice", "finish"}
        /\ pc = "planner" => path = <<"router">>
        /\ pc = "voice" => path = <<"router", "planner">>
        /\ pc = "finish" => path = <<"router", "planner", "voice">>

\* An off-topic turn whose coordinator call failed, on a plan already in use.
C8_Witness ==
    /\ Classified
    /\ state.user_intent = "off_topic"
    /\ pc = "voice"
    /\ state.planner_thought = ERROR_THOUGHT
    /\ \E i \in 1..Len(state.interview_plan) : state.interview_plan[i].score # None

\* Last-writer-wins over the patches in the order the tasks completed.
CompletionOrderMerge(res) ==
    IF Len(res) = 2 THEN Update(Update(EmptyPatch, res[1][2]), res[2][2])
    ELSE EmptyPatch

BothDone == pc = "parallel_analysis" /\ Len(results) = 2

\* C9: when both evaluator tasks are done their patches have no key in
\* common, and the patch the parallel step returns equals the last-writer-wins
\* merge of the two patches in either order of completion.
C9_MergeIsOrderFree ==
    BothDone =>
        /\ DOMAIN ResultOf(results, "skeptic") \cap DOMAIN ResultOf(results, "empath") = {}
        /\ merged_result(results) = CompletionOrderMerge(results)
        /\ merged_result(results) = CompletionOrderMerge(<<results[2], results[1]>>)

\* The Behavioral Evaluator finished first; both produced a judgment.
C9_Witness ==
    /\ BothDone
    /\ results[1][1] = "empath"
    /\ "behavioral_context" \in DOMAIN results[1][2]
    /\ results[2][2].hallucination_detected

\* C10: the Report Generator starts only when no report exists yet (so it
\* runs at most once per session) and only after a stop intent or after the
\* coordinator set should_end; a report, once written, comes with should_end
\* true and is never changed; and once the session has ended, a
\* process_message call changes neither the session state nor the turn log,
\* starts no workflow and returns the inactive notice.
C10_ReporterRuns ==
    /\ pc = "reporter" =>
        /\ state.final_report_string = ""
        /\ ~entry.should_end
        /\ \/ path = <<"router">> /\ state.user_intent = "stop"
           \/ LastNode = "planner" /\ state.should_end
    /\ state.final_report_string # "" => state.should_end
    /\ (pc = "wait" /\ state.should_end) => (~is_active /\ state.final_report_string # "")

C10_Ended == pc = "wait" /\ ~is_active

C10_ReportedOnce ==
    /\ []C10_ReporterRuns
    /\ [][state.final_report_string # "" =>
            /\ state'.final_report_string = state.final_report_string
            /\ state'.final_feedback = state.final_feedback
            /\ state'.should_end]_vars
    /\ [][C10_Ended =>
            /\ state' = state
            /\ is_active' = is_active
            /\ pc' = pc
            /\ path' = path
            /\ ret' = INACTIVE_NOTICE]_vars

\* After the report a further process_message call returned the notice.
C10_Witness ==
    /\ pc = "wait"
    /\ ~is_active
    /\ state.should_end
    /\ state.final_report_string # ""
    /\ ret = INACTIVE_NOTICE
    /\ Len(state.turns_log) = 1

\* The evaluators have run in the current candidate turn.
Evaluated == handler = "process" /\ InPath("parallel_analysis")

\* The coordinator has run in the current candidate turn and did not fail.
Coordinated ==
    /\ handler = "process"
    /\ InPath("planner")
    /\ state.planner_thought # ERROR_THOUGHT

\* The topic that was current when the turn started, now and at the start.
EntryTopic == state.interview_plan[entry.current_topic_index + 1]
EntryTopicBefore == entry.interview_plan[entry.current_topic_index + 1]

\* C11: on an answer turn on which the Technical Evaluator reported a
\* hallucination (or a fictional term), the score the turn records on the
\* current topic is 0 or 1.  The score is the coordinator provider's
\* topic_score, written as returned, so this is not what the code does.
C11_HallucinationScoreClamped ==
    (Evaluated /\ Coordinated /\ state.hallucination_detected
        /\ entry.current_topic_index < Len(entry.interview_plan)) =>
        \/ EntryTopic.score \in {0, 1}
        \/ EntryTopic.score = EntryTopicBefore.score

HallucinationCount(st) == st.behavioral_context.hallucination_count

\* C12 as claimed: on every answer turn with a reported hallucination the
\* hallucination counter after the coordinator is greater than at the start.
C12_Original ==
    (Evaluated /\ InPath("planner") /\ state.hallucination_detected) =>
        HallucinationCount(state) > HallucinationCount(entry)

\* C12, amended: on an answer turn with a reported hallucination the
\* hallucination counter rises by exactly one when the coordinator's provider
\* call succeeds and is unchanged when that call fails; before the coordinator
\* has run, and on every other turn, it is unchanged.
C12_HallucinationCounted ==
    handler = "process" =>
        HallucinationCount(state) = HallucinationCount(entry) +
            (IF Evaluated /\ Coordinated /\ state.hallucination_detected
             THEN 1 ELSE 0)

\* A second hallucination has been counted.
C12_Witness ==
    /\ Evaluated
    /\ Coordinated
    /\ state.hallucination_detected
    /\ pc = "finish"
    /\ HallucinationCount(state) = 2

Scores(plan) == [i \in 1..Len(plan) |-> plan[i].score]

\* C13: when the Technical Evaluator's provider call fails on an answer turn,
\* hallucination_detected is false, the diagnostic is the evaluator's thought,
\* the turn goes on to the coordinator, and no score is written onto any topic
\* during the turn.  The coordinator still writes its provider's topic_score,
\* so the last part is not what the code does.
C13_SkepticFailureWritesNoScore ==
    (Evaluated /\ state.skeptic_thought = ANALYSIS_ERROR_THOUGHT) =>
        /\ ~state.hallucination_detected
        /\ path[2] = "parallel_analysis"
        /\ pc = "planner" \/ path[3] = "planner"
        /\ Scores(state.interview_plan) = Scores(entry.interview_plan)

\* The Behavioral Evaluator's task of this turn is done and its call failed.
EmpathFailed ==
    /\ pc = "parallel_analysis"
    /\ Done(results, "empath")
    /\ ResultOf(results, "empath").empath_thought = ANALYSIS_ERROR_THOUGHT

\* C14: when the Behavioral Evaluator's provider call fails on an answer
\* turn, its patch has no behavioral_context and carries the diagnostic as
\* the evaluator's thought, and the behavioral context the coordinator is
\* entered with is the one the turn started with.
C14_EmpathFailureKeepsContext ==
    /\ EmpathFailed =>
        /\ "behavioral_context" \notin DOMAIN ResultOf(results, "empath")
        /\ state.behavioral_context = entry.behavioral_context
    /\ (Evaluated /\ pc = "planner"
            /\ state.empath_thought = ANALYSIS_ERROR_THOUGHT) =>
        state.behavioral_context = entry.behavioral_context

\* The failed analysis follows a turn that had changed the context.
C14_Witness ==
    /\ Evaluated
    /\ pc = "planner"
    /\ state.empath_thought = ANALYSIS_ERROR_THOUGHT
    /\ state.skeptic_thought = LLM_THOUGHT
    /\ entry.behavioral_context.demeanor = "stuck"
    /\ entry.behavioral_context.protocol = "rescue"

\* C15: the opening invocation (turn counter 0, empty candidate message) on a
\* non-empty plan skips classification with intent answer, runs the
\* coordinator in opening mode and no evaluator, marks topic 0 in_progress
\* and leaves every other topic pending, appends exactly one interviewer
\* message and no candidate message, and ends with turn counter 1 and
\* should_end false.
C15_OpeningTurn ==
    (handler = "start" /\ state.interview_plan # <<>>) =>
        /\ state.current_user_message = ""
        /\ pc # "finish" => (state.turn_id = 0 /\ state.messages = <<>>)
        /\ Len(path) >= 1 =>
            /\ state.user_intent = "answer"
            /\ state.router_thought = FIRST_TURN_THOUGHT
        /\ Len(path) >= 2 =>
            /\ state.planner_thought = "opening"
            /\ state.interview_plan[1].status = "in_progress"
            /\ \A i \in 2..Len(state.interview_plan) :
                   state.interview_plan[i].status = "pending"
        /\ pc = "finish" =>
            /\ path = <<"router", "planner", "voice">>
            /\ Len(state.messages) = 1
            /\ state.messages[1].role = "assistant"
            /\ state.turn_id = 1
            /\ ~state.should_end

\* The opening turn has completed on a plan of more than one topic.
C15_Witness ==
    /\ handler = "start"
    /\ pc = "finish"
    /\ Len(state.interview_plan) >= 2
    /\ state.interview_plan[1].topic = <<"topic", 1>>

(***************************************************************************)
(* The turn-limit scenario: a plan of ScenarioTopics topics (and one more), *)
(* the default turn limit, every candidate turn classified answer, every   *)
(* provider call successful, every coordinator result with a score.        *)
(***************************************************************************)
ScenarioTopics == 5

ScenarioPlans ==
    {[ok |-> TRUE, n |-> n] : n \in {ScenarioTopics, ScenarioTopics + 1}}

ScenarioStart == \E llm \in ScenarioPlans : StartWith(llm)

\* The candidate may go on sending messages past the turn limit.
ScenarioMessage == AcceptMessage("msg", max_turns + 1)

ScenarioRouter ==
    \E llm \in {r \in RouterInputs(state) : r.ok /\ Get(r, "intent", "answer") = "answer"} :
        RouterStep(llm)

ScenarioSkeptic ==
    \E llm \in {r \in SkepticResults : r.ok /\ r.accuracy = "exact"} : SkepticStep(llm)

ScenarioEmpath == \E llm \in {r \in EmpathResults : r.ok} : EmpathStep(llm)

ScenarioPlanner ==
    \E llm \in {r \in PlannerInputs(state) :
                   r.ok /\ Get(r, "topic_score", 0) # None} :
        PlannerStep(llm)

ScenarioVoice == \E llm \in {r \in VoiceResults : r.ok} : VoiceStep(llm)

ScenarioNext ==
    \/ ScenarioStart
    \/ ProcessMessageInactive
    \/ ScenarioMessage
    \/ ScenarioRouter
    \/ ScenarioSkeptic
    \/ ScenarioEmpath
    \/ ParallelMerge
    \/ ScenarioPlanner
    \/ ScenarioVoice
    \/ Reporter
    \/ FinishStart
    \/ FinishProcess

ScenarioSpec == Init /\ [][ScenarioNext]_vars

\* The coordinator has run on the candidate turn on which the counter equals
\* the turn limit (the tenth candidate turn under the default limit).
LimitTurnPlanned ==
    /\ handler = "process"
    /\ current_turn_id = max_turns
    /\ InPath("planner")

\* The plan cannot outlast the limit: the cap completes it in time.
PlanFitsLimit(plan) == Len(plan) * TOPIC_QUESTION_CAP <= max_turns

\* C16 as claimed: in the scenario should_end is true after the tenth
\* candidate turn by the turn-limit clause alone, the plan not being
\* exhausted at that point.
C16_Original ==
    LimitTurnPlanned =>
        /\ state.should_end
        /\ state.current_topic_index < Len(state.interview_plan)

\* C16, amended: in the scenario the n-th candidate turn runs with counter n,
\* no session outlasts the turn limit, and on the turn whose counter equals
\* the limit should_end is true and the turn-limit clause holds.  A plan the
\* two-question cap completes within the limit (five topics, limit ten) is
\* exhausted on that same turn at the latest, so no pending topic remains and
\* the plan-exhaustion clause holds too; only a longer plan can have pending
\* topics left at the limit.
C16_TurnLimit ==
    /\ Len(state.turns_log) <= max_turns
    /\ handler = "process" => current_turn_id = Len(state.turns_log) + 1
    /\ (pc = "wait" /\ Len(state.turns_log) = max_turns) =>
           (state.should_end /\ ~is_active)
    /\ LimitTurnPlanned =>
        /\ state.should_end
        /\ state.turn_id >= max_turns
        /\ PlanFitsLimit(state.interview_plan) =>
            /\ WithStatus(state.interview_plan, "pending") = {}
            /\ state.current_topic_index = Len(state.interview_plan)

\* The tenth candidate turn of a five-topic session has completed.
C16_Witness ==
    /\ LimitTurnPlanned
    /\ pc = "finish"
    /\ Len(state.interview_plan) = ScenarioTopics
    /\ Len(state.turns_log) = max_turns - 1

\* C17: when the Report Generator's provider call fails, should_end is
\* true, the structured feedback is absent, the report string is the
\* non-empty error explanation and the session becomes inactive; and every
\* session that has ended has a non-empty final report string.
C17_DegradedReport ==
    /\ (InPath("reporter") /\ state.final_feedback = NoFeedback) =>
        /\ state.should_end
        /\ state.final_report_string = REPORT_ERROR
        /\ state.final_report_string # ""
    /\ (pc = "wait" /\ state.final_report_string = REPORT_ERROR) =>
        /\ ~is_active
        /\ state.should_end
        /\ state.final_feedback = NoFeedback
    /\ (pc = "wait" /\ (state.should_end \/ ~is_active)) =>
        /\ ~is_active
        /\ state.final_report_string # ""

\* The report failed at the end of a session that had scored a topic.
C17_Witness ==
    /\ pc = "wait"
    /\ ~is_active
    /\ state.final_report_string = REPORT_ERROR
    /\ ret = REPORT_ERROR
    /\ \E i \in 1..Len(state.interview_plan) : state.interview_plan[i].score # None

\* Texts that are built from the provider's error text.
ErrorTexts ==
    {PROVIDER_ERROR, REPORT_ERROR, ERROR_THOUGHT, ROUTER_ERROR_THOUGHT,
     ANALYSIS_ERROR_THOUGHT}

\* C18: whatever provider call fails, the text start_interview or
\* process_message returns to the candidate never contains the provider's
\* error text.  A failed report is returned as it is, so this is not what the
\* code does.
C18_NoProviderErrorShown == ret \notin ErrorTexts

(***************************************************************************)
(* Sessions in which every call to the classifier, the evaluators, the     *)
(* coordinator and the renderer succeeds, with more of what the providers  *)
(* may say: an off_topic verdict explained in the words the report's count *)
(* of unanswered questions looks for, a coordinator that scores a topic 0, *)
(* and a report that recommends No Hire.                                   *)
(***************************************************************************)
VerdictRouterResults ==
    {[ok |-> TRUE, intent |-> i,
      internal_thought |-> IF i = "off_topic" THEN OFF_TOPIC_THOUGHT ELSE LLM_THOUGHT] :
        i \in Intents}

VerdictPlannerResults ==
    {r \in PlannerResults : r.ok} \cup
    {[ok |-> TRUE, topic_score |-> 0, next_action |-> "handle_hallucination",
      new_protocol |-> "standard"]}

VerdictReporterResults ==
    ReporterResults \cup {[ok |-> TRUE, hiring_recommendation |-> "No Hire"]}

VerdictMessage == AcceptMessage("msg", MaxMsgs)

VerdictRouter ==
    \E llm \in (IF RouterClassifies(state) THEN VerdictRouterResults
                ELSE RouterInputs(state)) :
        RouterStep(llm)

VerdictSkeptic == \E llm \in {r \in SkepticResults : r.ok} : SkepticStep(llm)

VerdictEmpath == \E llm \in {r \in EmpathResults : r.ok} : EmpathStep(llm)

VerdictPlanner ==
    \E llm \in (IF PlannerMode(state) = "full" THEN VerdictPlannerResults
                ELSE {r \in PlannerInputs(state) : r.ok}) :
        PlannerStep(llm)

VerdictVoice == \E llm \in {r \in VoiceResults : r.ok} : VoiceStep(llm)

VerdictReporter == \E llm \in VerdictReporterResults : ReporterStep(llm)

VerdictNext ==
    \/ StartInterview
    \/ ProcessMessageInactive
    \/ VerdictMessage
    \/ VerdictRouter
    \/ VerdictSkeptic
    \/ VerdictEmpath
    \/ ParallelMerge
    \/ VerdictPlanner
    \/ VerdictVoice
    \/ VerdictReporter
    \/ FinishStart
    \/ FinishProcess

VerdictSpec == Init /\ [][VerdictNext]_vars

\* C19: when the hallucination counter is greater than 0 as the Report
\* Generator runs, the recommendation of the final report is No Hire whatever
\* the provider returned.  The provider's recommendation is passed on
\* unchanged, so this is not what the code does.
C19_HallucinationForcesNoHire ==
    (state.final_feedback # NoFeedback /\ HallucinationCount(state) > 0) =>
        /\ state.final_feedback.hiring_recommendation = "No Hire"
        /\ state.final_report_string = "report: No Hire"

\* C20: when the turn log the Report Generator reads is not empty and every
\* turn in it counts as unanswered, the recommendation of the final report is
\* No Hire whatever the provider returned.  The count is only shown to the
\* provider, so this is not what the code does.
C20_NoAnswersForcesNoHire ==
    (/\ pc = "finish"
     /\ LastNode = "reporter"
     /\ state.final_feedback # NoFeedback
     /\ Len(state.turns_log) > 0
     /\ count_unanswered_questions(state.turns_log) = Len(state.turns_log)) =>
        state.final_feedback.hiring_recommendation = "No Hire"

(***************************************************************************)
(* run_interview: the console loop that drives one session and its logger. *)
(* It sends only non-empty messages, only while the interview is active,   *)
(* and after each process_message call logs the last record of the turn    *)
(* log.                                                                    *)
(***************************************************************************)
\* Mutant: the logger keeps no internal thoughts.
log_turn_DropsThoughts(turns, turn_id, agent_visible_message, user_message, internal_thoughts) ==
    Append(turns, [turn_id |-> turn_id,
                   agent_visible_message |-> agent_visible_message,
                   user_message |-> user_message,
                   internal_thoughts |-> <<>>])

\* InterviewLogger.log_turn: a new record built from the four arguments.
log_turn(turns, turn_id, agent_visible_message, user_message, internal_thoughts) ==
    Append(turns, [turn_id |-> turn_id,
                   agent_visible_message |-> agent_visible_message,
                   user_message |-> user_message,
                   internal_thoughts |-> internal_thoughts])

get_turns_log(st) == Get(st, "turns_log", <<>>)

export_session(st) ==
    [participant_name |-> "participant",
     turns |-> Get(st, "turns_log", <<>>),
     final_feedback |-> Get(st, "final_report_string", "")]

MainMessage == AcceptMessage("msg", MaxMsgs)

\* process_message returns and the loop logs the last turn, if there is one.
MainLoopLog ==
    /\ ProcessReturn
    /\ LET turns == get_turns_log(state')
       IN  logged' = IF turns # <<>>
                     THEN LET last_turn == turns[Len(turns)]
                          IN  log_turn(logged, last_turn.turn_id,
                                       last_turn.agent_visible_message,
                                       last_turn.user_message,
                                       last_turn.internal_thoughts)
                     ELSE logged

MainNext ==
    \/ StartInterview
    \/ MainMessage
    \/ Router
    \/ SkepticTask
    \/ EmpathTask
    \/ ParallelMerge
    \/ Planner
    \/ Voice
    \/ Reporter
    \/ FinishStart
    \/ MainLoopLog

MainSpec == Init /\ [][MainNext]_vars

SameRecord(a, b) ==
    /\ a.turn_id = b.turn_id
    /\ a.agent_visible_message = b.agent_visible_message
    /\ a.user_message = b.user_message
    /\ a.internal_thoughts = b.internal_thoughts

SameTurns(xs, ys) ==
    /\ Len(xs) = Len(ys)
    /\ \A i \in 1..Len(xs) : SameRecord(xs[i], ys[i])

\* C21: after any sequence of turns of the console loop, the turns exported
\* by export_session and the turns the logger accumulated from log_turn both
\* equal the session's turn log: same length, same order, and the same
\* turn_id, agent_visible_message, user_message and internal_thoughts in
\* every record.
C21_RoundTrip ==
    /\ SameTurns(export_session(state).turns, state.turns_log)
    /\ SameTurns(logged, state.turns_log)
    /\ \A i \in 1..Len(logged) : DOMAIN logged[i] = DOMAIN state.turns_log[i]

\* Two turns were logged, the first with a failed evaluator's diagnostic.
C21_Witness ==
    /\ pc = "wait"
    /\ Len(logged) = 2
    /\ logged[1].internal_thoughts # logged[2].internal_thoughts
    /\ \E k \in 1..Len(logged[1].internal_thoughts) :
           logged[1].internal_thoughts[k][2] = ANALYSIS_ERROR_THOUGHT

(***************************************************************************)
(* Sessions under a low MAX_TURNS setting, with evaluators and a renderer  *)
(* that do not fail.                                                       *)
(***************************************************************************)
InitLimit == InitWith(MaxTurnsLow)

LimitMessage == AcceptMessage("msg", MaxTurnsLow + 1)

LimitNext ==
    \/ StartInterview
    \/ ProcessMessageInactive
    \/ LimitMessage
    \/ Router
    \/ ScenarioSkeptic
    \/ ScenarioEmpath
    \/ ParallelMerge
    \/ Planner
    \/ ScenarioVoice
    \/ Reporter
    \/ FinishStart
    \/ FinishProcess

LimitSpec == InitLimit /\ [][LimitNext]_vars

\* A full-mode turn on which the coordinator's provider call succeeded has
\* got past the coordinator.
FullModePlanned ==
    /\ handler = "process"
    /\ InPath("planner")
    /\ state.user_intent \notin {"question", "off_topic"}
    /\ state.planner_thought # ERROR_THOUGHT

\* C22 as claimed: on a successful full-mode turn should_end is true whenever
\* no topic with status pending remains in the plan.
C22_Original ==
    (FullModePlanned /\ WithStatus(state.interview_plan, "pending") = {}) =>
        state.should_end

\* The coordinator step being taken is a full-mode step in which the
\* provider returns llm.
FullModeSuccess(llm) ==
    /\ PlannerMode(state) = "full"
    /\ llm.ok
    /\ PlannerStep(llm)

\* C22, amended: on every full-mode turn where the provider call succeeds,
\* should_end is true exactly when the provider's next_action is finish, or
\* the plan is exhausted (the current topic index after the turn's update is
\* the plan length, which a transition sets when it finds no pending topic),
\* or the turn counter has reached the configured maximum; each of the three
\* alone is enough, and when none holds should_end is false.  A plan whose
\* last topic is in progress has no pending topic and is not exhausted.
C22_Termination ==
    [][\A llm \in PlannerResults :
        FullModeSuccess(llm) =>
            /\ state'.should_end <=>
                   \/ llm.next_action = "finish"
                   \/ state'.current_topic_index >= Len(state'.interview_plan)
                   \/ state.turn_id >= max_turns
            /\ state'.current_topic_index >= Len(state'.interview_plan) =>
                   /\ WithStatus(state'.interview_plan, "pending") = {}
                   /\ WithStatus(state'.interview_plan, "in_progress") = {}]_vars

\* The turn limit alone ended a session that still had a pending topic.
C22_Witness ==
    /\ FullModePlanned
    /\ state.should_end
    /\ state.turn_id >= max_turns
    /\ state.current_topic_index < Len(state.interview_plan)
    /\ WithStatus(state.interview_plan, "pending") # {}
    /\ WithStatus(state.interview_plan, "in_progress") # {}

\* The coordinator step being taken is a successful full-mode step that
\* makes a topic transition: the provider asked for the next topic, or the
\* current topic reached its question cap.
TransitionTaken(llm) ==
    /\ FullModeSuccess(llm)
    /\ \/ llm.next_action = "next_topic"
       \/ PlanUpdate(state, llm).move_to_next

StatusRank(status) ==
    CASE status = "pending" -> 0
      [] status = "in_progress" -> 1
      [] status = "completed" -> 2

\* C24: over any sequence of turns a topic's status only moves
\* pending -> in_progress -> completed: no step lowers a topic's status, and
\* no step takes a topic from pending to completed.
C24_StatusMovesForward ==
    [][\A i \in 1..Len(state.interview_plan) :
        /\ Len(state'.interview_plan) = Len(state.interview_plan)
        /\ state'.interview_plan[i].id = state.interview_plan[i].id
        /\ StatusRank(state'.interview_plan[i].status) >=
               StatusRank(state.interview_plan[i].status)
        /\ StatusRank(state'.interview_plan[i].status) <=
               StatusRank(state.interview_plan[i].status) + 1]_vars

\* Between turns, the first topic has been closed and the second one opened.
C24_Witness ==
    /\ pc = "wait"
    /\ Len(state.interview_plan) = 2
    /\ state.interview_plan[1].status = "completed"
    /\ state.interview_plan[2].status = "in_progress"
    /\ Len(state.turns_log) = 2

\* C25: within one answer turn (a turn the router sends to analysis) the
\* Strategic Coordinator starts only from the parallel step, and the parallel
\* step is left only when both evaluator tasks have finished (returned or
\* failed); whatever one task did, every key
\* of the other task's patch is in the merged patch with its value, and is in
\* the state the coordinator starts with when the state schema has the key.
C25_JoinBeforeCoordinator ==
    [][/\ (pc # "planner" /\ pc' = "planner" /\ state'.next_step = "analyze") =>
           pc = "parallel_analysis"
       /\ (pc = "router" /\ state'.next_step = "analyze") =>
           pc' = "parallel_analysis"
       /\ (pc = "parallel_analysis" /\ pc' # "parallel_analysis") =>
           /\ pc' = "planner"
           /\ Done(results, "skeptic")
           /\ Done(results, "empath")
           /\ \A agent \in {"skeptic", "empath"} :
                \A k \in DOMAIN ResultOf(results, agent) :
                    /\ k \in DOMAIN merged_result(results)
                    /\ merged_result(results)[k] = ResultOf(results, agent)[k]
                    /\ k \in SchemaKeys => state'[k] = ResultOf(results, agent)[k]]_vars

\* The coordinator is about to start after a turn on which the Behavioral
\* Evaluator failed and the Technical Evaluator reported a hallucination.
C25_Witness ==
    /\ handler = "process"
    /\ pc = "planner"
    /\ LastNode = "parallel_analysis"
    /\ state.empath_thought = ANALYSIS_ERROR_THOUGHT
    /\ state.skeptic_thought = LLM_THOUGHT
    /\ state.hallucination_detected

(***************************************************************************)
(* Sessions in which the Technical Evaluator's call succeeds and its       *)
(* result carries a correction text (correct_answer).                      *)
(***************************************************************************)
CorrectingSkeptic ==
    \E llm \in {r \in SkepticResults : r.ok /\ r.correct_answer # ""} : SkepticStep(llm)

CorrectionNext ==
    \/ StartInterview
    \/ ProcessMessageInactive
    \/ ProcessMessage
    \/ Router
    \/ CorrectingSkeptic
    \/ EmpathTask
    \/ ParallelMerge
    \/ Planner
    \/ Voice
    \/ Reporter
    \/ FinishStart
    \/ FinishProcess

CorrectionSpec == Init /\ [][CorrectionNext]_vars

\* C26: on a full-mode turn with hallucination_detected true and a successful
\* provider call, the directive passed on to the Dialogue Renderer is not the
\* provider's own directive; as the Technical Evaluator produced a correction
\* text on every evaluated turn of CorrectionSpec, the directive is the
\* challenge that embeds that text.
C26_ChallengeEmbedsCorrection ==
    (FullModePlanned /\ Evaluated /\ state.hallucination_detected) =>
        /\ state.planner_directive # LLM_DIRECTIVE
        /\ state.planner_directive = "challenge: " \o "fact"

\* The Behavioral Evaluator's call of this turn succeeded.
EmpathSucceeded == Evaluated /\ state.empath_thought = LLM_THOUGHT

\* The protocol the Behavioral Evaluator recommended on this turn: the one of
\* the provider result whose demeanor and stress level the state now holds.
EmpathRecommendation ==
    {r.recommended_protocol :
        r \in {x \in EmpathResults :
                 /\ x.ok
                 /\ x.demeanor = state.behavioral_context.demeanor
                 /\ x.stress_level = state.behavioral_context.stress_level}}

\* The non-standard protocols the coordinator's provider can ask for.
PlannerProtocols ==
    {r.new_protocol : r \in {x \in PlannerResults : x.ok}} \ {"standard"}

\* C27 as claimed: a non-standard recommendation of the Behavioral Evaluator
\* is the protocol in force once the coordinator has run.
C27_Original ==
    (EmpathSucceeded /\ InPath("planner")) =>
        \A rec \in EmpathRecommendation :
            rec # "standard" => state.behavioral_context.protocol = rec

\* C27, amended: on an answer turn a recommendation of standard (from either
\* agent) never changes the protocol; a non-standard recommendation of the
\* Behavioral Evaluator replaces the protocol of the earlier turns and is the
\* protocol the coordinator starts with, and it is the protocol in force
\* after the turn unless the coordinator's provider returns a non-standard
\* new_protocol of its own, which then replaces it.
C27_ProtocolMerge ==
    /\ EmpathSucceeded =>
        \A rec \in EmpathRecommendation :
            LET merged == IF rec = "standard"
                          THEN entry.behavioral_context.protocol ELSE rec
            IN  /\ ~InPath("planner") => state.behavioral_context.protocol = merged
                /\ InPath("planner") =>
                       state.behavioral_context.protocol \in {merged} \cup PlannerProtocols
    /\ handler = "process" =>
           state.behavioral_context.protocol \in
               {entry.behavioral_context.protocol} \cup PlannerProtocols
                   \cup (IF EmpathSucceeded THEN EmpathRecommendation ELSE {})
    /\ (handler = "process" /\ state.behavioral_context.protocol = "standard") =>
           entry.behavioral_context.protocol = "standard"

\* The coordinator set a protocol on the first answer turn; on the second one
\* the Behavioral Evaluator's recommendation replaced it and stayed in force.
C27_Witness ==
    /\ EmpathSucceeded
    /\ InPath("voice")
    /\ entry.behavioral_context.protocol = "stress_test"
    /\ state.behavioral_context.protocol = "rescue"
    /\ EmpathRecommendation = {"rescue"}

IsPrefix(xs, ys) ==
    /\ Len(xs) <= Len(ys)
    /\ \A i \in 1..Len(xs) : xs[i] = ys[i]

\* C28: the Message History is append-only (over every step it is a prefix of
\* what it becomes), and every Dialogue Renderer invocation appends the
\* candidate's message followed by one newly generated interviewer message
\* when the candidate message is not empty, and one interviewer message only
\* when it is empty.
C28_HistoryAppends ==
    [][/\ IsPrefix(state.messages, state'.messages)
       /\ (pc = "voice" /\ pc' # "voice") =>
              \E response \in {r.message : r \in {x \in VoiceResults : x.ok}}
                                  \cup {VOICE_FILLER} :
                  state'.messages = state.messages \o
                      (IF state.current_user_message # ""
                       THEN <<[role |-> "user", content |-> state.current_user_message]>>
                       ELSE <<>>) \o
                      <<[role |-> "assistant", content |-> response]>>]_vars

\* The Dialogue Renderer was the last node of the latest invocation and its
\* provider call failed.
VoiceFailed == LastNode = "voice" /\ state.voice_thought = ERROR_THOUGHT

\* C29: when the Dialogue Renderer's provider call fails the turn still
\* completes: the filler is the response and the last entry of the history,
\* the turn counter is one more than when the invocation started, should_end
\* is what it was (false), and once the handler has returned the filler is
\* what the candidate was given and the session is active.
C29_RendererFailureContinues ==
    /\ (VoiceFailed /\ pc = "finish") =>
           /\ state.current_response = VOICE_FILLER
           /\ state.messages[Len(state.messages)] =
                  [role |-> "assistant", content |-> VOICE_FILLER]
           /\ state.turn_id = current_turn_id + 1
           /\ ~state.should_end
           /\ handler = "process" => state.should_end = entry.should_end
    /\ (VoiceFailed /\ pc = "wait") =>
           /\ ret = VOICE_FILLER
           /\ last_agent_message = VOICE_FILLER
           /\ is_active
           /\ ~state.should_end
           /\ state.turn_id = current_turn_id + 1

\* A candidate turn was answered with the filler and the session goes on.
C29_Witness ==
    /\ VoiceFailed
    /\ pc = "wait"
    /\ Len(state.turns_log) = 1
    /\ ret = VOICE_FILLER
    /\ is_active

\* C30: the Turn Log gets exactly one record at the return of each
\* process_message call accepted on an active session and at no other step
\* (none in the opening invocation); its records are only appended and never
\* changed; turn ids are strictly increasing; and the agent_visible_message
\* of a new record is the interviewer message the invocation before it
\* returned.
C30_TurnLog ==
    [][LET old == state.turns_log
           new == state'.turns_log
       IN  /\ IsPrefix(old, new)
           /\ Len(new) <= Len(old) + 1
           /\ Len(new) = Len(old) + 1 <=>
                  (handler = "process" /\ pc = "finish" /\ pc' = "wait")
           /\ (pc = "wait" /\ pc' = "router") => handler' = "process" /\ is_active
           /\ Len(new) = Len(old) + 1 =>
                  /\ new[Len(new)].agent_visible_message = ret
                  /\ new[Len(new)].user_message = state.current_user_message
                  /\ new[Len(new)].turn_id >= 1
                  /\ old # <<>> => new[Len(new)].turn_id > old[Len(old)].turn_id]_vars

\* The second record of the log shows the filler that answered the first
\* candidate message.
C30_Witness ==
    /\ pc = "wait"
    /\ Len(state.turns_log) = 2
    /\ state.turns_log[1].agent_visible_message = "question"
    /\ state.turns_log[2].agent_visible_message = VOICE_FILLER
    /\ state.turns_log[1].turn_id < state.turns_log[2].turn_id

\* C31: when the Report Generator runs, the Turn Log in the state it reads
\* has a record for every candidate message accepted so far; the last record
\* is the one of the turn that triggered the report.
C31_ReporterReadsFullLog ==
    (pc = "reporter" /\ handler = "process") =>
        /\ state.turns_log # <<>>
        /\ state.turns_log[Len(state.turns_log)].turn_id = current_turn_id
        /\ state.turns_log[Len(state.turns_log)].user_message =
               state.current_user_message

\* The debate has the line "[agent]: thought".
HasLine(debate, agent, thought) ==
    \E i \in 1..Len(debate) : debate[i] = Line(agent, thought)

\* The record of the latest candidate turn, once process_message returned.
TurnRecorded == pc = "wait" /\ state.turns_log # <<>>
LastRecord == state.turns_log[Len(state.turns_log)]

\* C32: every provider failure of a turn (classifier, either evaluator,
\* coordinator, renderer, report generator) has its diagnostic in the
\* internal_thoughts of that turn's record.
C32_FailuresRecorded ==
    TurnRecorded =>
        /\ state.router_thought = ROUTER_ERROR_THOUGHT =>
               HasLine(LastRecord.internal_thoughts, "Router", ROUTER_ERROR_THOUGHT)
        /\ state.skeptic_thought = ANALYSIS_ERROR_THOUGHT =>
               HasLine(LastRecord.internal_thoughts, "Skeptic", ANALYSIS_ERROR_THOUGHT)
        /\ state.empath_thought = ANALYSIS_ERROR_THOUGHT =>
               HasLine(LastRecord.internal_thoughts, "Empath", ANALYSIS_ERROR_THOUGHT)
        /\ state.planner_thought = ERROR_THOUGHT =>
               HasLine(LastRecord.internal_thoughts, "Planner", ERROR_THOUGHT)
        /\ state.voice_thought = ERROR_THOUGHT =>
               HasLine(LastRecord.internal_thoughts, "Voice", ERROR_THOUGHT)
        /\ state.final_report_string = REPORT_ERROR =>
               HasLine(LastRecord.internal_thoughts, "Reporter", ERROR_THOUGHT)

\* The debate has a line of the agent.
HasAgent(debate, agent) == \E i \in 1..Len(debate) : debate[i][1] = agent

\* C33: the internal_thoughts of each Turn record holds the rationale of
\* every agent that acted during the turn: the classifier, both evaluators
\* when the turn was analysed, the coordinator, and the renderer or the
\* report generator, on every workflow path.
C33_AllAgentsInRecord ==
    TurnRecorded =>
        /\ state.router_thought # "" =>
               HasLine(LastRecord.internal_thoughts, "Router", state.router_thought)
        /\ InPath("parallel_analysis") =>
               /\ HasLine(LastRecord.internal_thoughts, "Skeptic", state.skeptic_thought)
               /\ HasLine(LastRecord.internal_thoughts, "Empath", state.empath_thought)
        /\ InPath("planner") => HasAgent(LastRecord.internal_thoughts, "Planner")
        /\ InPath("voice") => HasAgent(LastRecord.internal_thoughts, "Voice")
        /\ InPath("reporter") => HasAgent(LastRecord.internal_thoughts, "Reporter")

\* C34: no component changes the state it is given; whatever a step of the
\* classifier, the coordinator (opening, fast and full mode), the renderer or
\* the report generator changes in the session state is the patch the
\* component returns, merged into the state it was called with.
C34_OnlyPatchesChangeState ==
    [][/\ (pc = "router" /\ pc' # "router") =>
              \E llm \in RouterInputs(state) :
                  state' = ApplyPatch(state, router_node(state, llm))
       /\ (pc = "planner" /\ pc' # "planner") =>
              \E llm \in PlannerInputs(state) :
                  /\ planner_node_inplace(state, llm) = state
                  /\ state' = ApplyPatch(state, planner_node(state, llm, max_turns))
       /\ (pc = "voice" /\ pc' # "voice") =>
              \E llm \in VoiceResults :
                  state' = ApplyPatch(state, voice_node(state, llm))
       /\ (pc = "reporter" /\ pc' # "reporter") =>
              \E llm \in ReporterResults :
                  state' = ApplyPatch(state, reporter_node(state, llm))]_vars

\* Between invocations, on an active session whose plan is not empty.
TurnBoundary == pc = "wait" /\ is_active /\ state.interview_plan # <<>>

\* C35: at every turn boundary of an active session with a non-empty plan the
\* current topic index points at the only in_progress topic, every topic
\* before it is completed and every topic after it is pending; and the
\* current topic index never decreases: inside an invocation it is at least
\* what it was at the boundary the invocation started from.
C35_PlanShape ==
    /\ TurnBoundary =>
        LET plan == state.interview_plan
            cur == state.current_topic_index + 1
        IN  /\ cur \in 1..Len(plan)
            /\ WithStatus(plan, "in_progress") = {cur}
            /\ WithStatus(plan, "completed") = 1..(cur - 1)
            /\ WithStatus(plan, "pending") = (cur + 1)..Len(plan)
    /\ handler = "process" => state.current_topic_index >= entry.current_topic_index
    /\ state.current_topic_index >= 0

\* An active session is at a boundary with its second topic open.
C35_Witness ==
    /\ TurnBoundary
    /\ Len(state.interview_plan) = 2
    /\ state.current_topic_index = 1
    /\ state.interview_plan[1].status = "completed"
    /\ state.interview_plan[2].status = "in_progress"

(***************************************************************************)
(* Sessions under a low MAX_TURNS setting in which no candidate message is *)
(* classified stop and, on every turn the coordinator runs in full mode,   *)
(* its provider call fails: every turn is a question or off_topic turn, or *)
(* a turn with a failed coordinator.                                       *)
(***************************************************************************)
StallRouter ==
    \E llm \in {r \in RouterInputs(state) : Get(r, "intent", "answer") # "stop"} :
        RouterStep(llm)

StallPlanner ==
    \E llm \in {r \in PlannerInputs(state) : PlannerMode(state) = "full" => ~r.ok} :
        PlannerCall(llm) /\ UNCHANGED failures

StallNext ==
    \/ StartInterview
    \/ ProcessMessageInactive
    \/ LimitMessage
    \/ StallRouter
    \/ ScenarioSkeptic
    \/ ScenarioEmpath
    \/ ParallelMerge
    \/ StallPlanner
    \/ Voice
    \/ FinishStart
    \/ FinishProcess

StallSpec == InitLimit /\ [][StallNext]_vars

\* C36: in a session where every candidate message is classified question or
\* off_topic, or the coordinator's provider call fails on every full-mode
\* turn, should_end is never set, the Report Generator is never reached and a
\* started session stays active, whatever the turn counter has grown to.
C36_NoTerminationCheck ==
    /\ ~state.should_end
    /\ pc # "reporter"
    /\ ~InPath("reporter")
    /\ state.final_report_string = ""
    /\ (pc = "wait" /\ state.turn_id > 0) => is_active

\* The turn counter is past the configured maximum after a turn on which the
\* coordinator failed, and the session still accepts messages.
C36_Witness ==
    /\ pc = "wait"
    /\ is_active
    /\ state.turn_id > max_turns
    /\ state.planner_thought = ERROR_THOUGHT
    /\ ~state.should_end

(***************************************************************************)
(* Sessions under any MAX_TURNS setting from 1 to MaxTurnsLow + 1 in which *)
(* every candidate message is treated as an answer and the coordinator's   *)
(* and the renderer's provider calls succeed.                              *)
(***************************************************************************)
InitAnswer == \E limit \in 1..(MaxTurnsLow + 1) : InitWith(limit)

AnswerMessage ==
    \E user_message \in UserMessages : AcceptMessage(user_message, max_turns + 1)

AnswerPlanner == \E llm \in {r \in PlannerInputs(state) : r.ok} : PlannerStep(llm)

AnswerNext ==
    \/ StartInterview
    \/ ProcessMessageInactive
    \/ AnswerMessage
    \/ ScenarioRouter
    \/ ScenarioSkeptic
    \/ ScenarioEmpath
    \/ ParallelMerge
    \/ AnswerPlanner
    \/ ScenarioVoice
    \/ Reporter
    \/ FinishStart
    \/ FinishProcess

AnswerSpec == InitAnswer /\ [][AnswerNext]_vars

Max(a, b) == IF a > b THEN a ELSE b

\* max(1, min(2N, MAX_TURNS)) for the session's plan and turn limit.
MessageBound ==
    Max(1, Min(TOPIC_QUESTION_CAP * Len(state.interview_plan), max_turns))

\* C37: when every candidate message is classified answer and the
\* coordinator's and the renderer's calls succeed, a session with an N-topic
\* plan never takes more than max(1, min(2N, MAX_TURNS)) candidate messages:
\* the message that reaches that number goes to the Report Generator and
\* leaves the session inactive, whatever next_action the provider returned.
C37_MessageBound ==
    /\ Len(state.turns_log) <= MessageBound
    /\ handler = "process" => Len(state.turns_log) + 1 <= MessageBound
    /\ (handler = "process" /\ Len(state.turns_log) + 1 = MessageBound
            /\ pc = "finish") => InPath("reporter")
    /\ (pc = "wait" /\ Len(state.turns_log) = MessageBound) =>
           (~is_active /\ state.should_end /\ InPath("reporter"))

\* A one-topic session under a limit of three ended on its second message,
\* by the question cap, the provider never asking for a transition.
C37_Witness ==
    /\ pc = "wait"
    /\ ~is_active
    /\ max_turns = 3
    /\ Len(state.interview_plan) = 1
    /\ Len(state.turns_log) = 2
    /\ state.interview_plan[1].questions_asked = 2
    /\ state.interview_plan[1].score = None

\* The workflow is running on an empty candidate message (the turn counter
\* is above 0 in every process_message call) and the router has returned.
EmptyMessageTurn ==
    /\ handler = "process"
    /\ state.current_user_message = ""
    /\ InPath("router")

\* C38: a process_message call with an empty candidate message skips the
\* classification and both evaluators, and runs the Strategic Coordinator in
\* full mode with the intent forced to answer: when the coordinator's call
\* succeeds, the questions-asked counter of the current topic is one more
\* than at the start of the turn (a transition or the termination may follow
\* from it, as the witness shows).
C38_EmptyMessageFullMode ==
    EmptyMessageTurn =>
        /\ current_turn_id > 0
        /\ state.user_intent = "answer"
        /\ state.router_thought = FIRST_TURN_THOUGHT
        /\ pc # "parallel_analysis"
        /\ ~InPath("parallel_analysis")
        /\ state.skeptic_thought = "" /\ state.empath_thought = ""
        /\ pc \in {"planner", "voice", "reporter", "finish"}
        /\ pc # "planner" => InPath("planner")
        /\ pc = "planner" => PlannerMode(state) = "full"
        /\ (InPath("planner") /\ state.planner_thought # ERROR_THOUGHT
                /\ entry.current_topic_index < Len(entry.interview_plan)) =>
               EntryTopic.questions_asked = EntryTopicBefore.questions_asked + 1

\* On an empty message the coordinator closed the last topic and ended the
\* interview.
C38_Witness ==
    /\ EmptyMessageTurn
    /\ pc = "finish"
    /\ InPath("reporter")
    /\ state.current_topic_index > entry.current_topic_index
    /\ state.current_topic_index = Len(state.interview_plan)
    /\ EntryTopic.status = "completed"
    /\ EntryTopic.questions_asked = 1

Protocols == {"standard", "rescue", "speedrun", "stress_test"}

\* C39: once the behavioral protocol is not standard it never returns to
\* standard: a session starts with standard, and no invocation that started
\* with a non-standard protocol has standard at any point, whatever the
\* Behavioral Evaluator or the coordinator's provider recommend.
C39_ProtocolNeverResets ==
    /\ state.behavioral_context.protocol \in Protocols
    /\ pc = "new" => state.behavioral_context.protocol = "standard"
    /\ (handler = "process" /\ entry.behavioral_context.protocol # "standard") =>
           state.behavioral_context.protocol # "standard"
    /\ (pc = "wait" /\ state.turns_log = <<>>) =>
           state.behavioral_context.protocol = "standard"

\* A turn that started under rescue ends under rescue although both the
\* Behavioral Evaluator and the coordinator's provider recommended standard.
C39_Witness ==
    /\ EmpathSucceeded
    /\ EmpathRecommendation = {"standard"}
    /\ InPath("voice")
    /\ state.planner_thought = LLM_THOUGHT
    /\ entry.behavioral_context.protocol = "rescue"
    /\ state.behavioral_context.protocol = "rescue"

\* The off-topic and contradiction counts reporter_node reads from a
\* behavioral context.
OffTopicCount(bc) == Get(bc, "off_topic_count", 0)
ContradictionCount(bc) == Get(bc, "contradiction_count", 0)

\* C40: the off-topic counter of the behavioral context is 0 in every
\* reachable state, no contradiction counter is written to the context (in
\* the state or in a patch an evaluator has returned), and the two counts the
\* Report Generator reads are 0.
C40_CountersStayZero ==
    /\ state.behavioral_context.off_topic_count = 0
    /\ "contradiction_count" \notin DOMAIN state.behavioral_context
    /\ \A i \in 1..Len(results) :
           "behavioral_context" \in DOMAIN results[i][2] =>
               /\ results[i][2].behavioral_context.off_topic_count = 0
               /\ "contradiction_count" \notin DOMAIN results[i][2].behavioral_context
    /\ pc = "reporter" =>
           /\ OffTopicCount(state.behavioral_context) = 0
           /\ ContradictionCount(state.behavioral_context) = 0

\* The report is about to be generated in a session whose first candidate
\* turn was classified off_topic and whose second one was analysed and found
\* to hold a fictional term and a contradiction.
C40_Witness ==
    /\ pc = "reporter"
    /\ handler = "process"
    /\ InPath("parallel_analysis")
    /\ state.hallucination_detected
    /\ state.behavioral_context.hallucination_count = 1
    /\ Len(state.turns_log) = 1
    /\ HasLine(state.turns_log[1].internal_thoughts, "Router", OFF_TOPIC_THOUGHT)
    /\ OffTopicCount(state.behavioral_context) = 0

====
